---------------------------- MODULE Spec2Model ----------------------------
(***************************************************************************)
(* Model of the compliance / analysis pipeline of the HIPAA AI             *)
(* investigation system:                                                   *)
(*   src/src/security/compliance.py       ComplianceChecker                *)
(*   src/src/ai/analyzer.py               ComplaintAnalyzer                *)
(*   src/src/reports/generator.py         ReportGenerator                  *)
(*   src/src/security/access_control.py   AccessControl                    *)
(*   src/src/security/audit.py            AuditLogger                      *)
(*   src/src/security/encryption.py       EncryptionService                *)
(*   src/src/api/main.py                  the request handlers             *)
(*   src/config/settings.py               Settings                         *)
(*                                                                         *)
(* Python values are modelled as follows.  A str is a TLA+ string, None is *)
(* the atom NONE, a list is a sequence, a dict with string keys is a       *)
(* function with a set of strings as its domain (a record), an object is   *)
(* the function from the names of the attributes it has to their values.   *)
(* The "checked_at" entry of a verdict (datetime.utcnow().isoformat()) is  *)
(* a wall-clock reading that no other entry depends on; it is left out.    *)
(***************************************************************************)
EXTENDS Integers, Sequences, FiniteSets, TLC

VARIABLES
    complaint,      \* the Complaint handed to the compliance evaluators
    documents,      \* the List[Document] handed to the compliance evaluators
    settings,       \* config.settings.settings (the attributes that are read)
    result,         \* the last call of a ComplianceChecker method and its return value
    response_text,  \* the text returned by the text-generation call (list of characters)
    parsed,         \* the last call of _parse_analysis_response and its outcome
    ai_analysis,    \* the AIAnalysis handed to the report generator
    clock,          \* the number of readings of datetime.utcnow() so far
    reports,        \* the calls of generate_panel_report so far and what each returned
    exports,        \* the calls of export_report_to_text so far and what each returned
    tasks,          \* the concurrent invocations of the compliance evaluators
    access,         \* the last call of an AccessControl method and its return value
    audit_log,      \* the entries audit_logger has built, oldest first
    analyzer,       \* the module-level _analyzer of the API
    http,           \* the last request an endpoint of the API handled and its response
    audit_call,     \* the last call of an AuditLogger method and what it returned
    cipher,         \* the key of the EncryptionService instance (self.cipher)
    crypto          \* the last call of encrypt or decrypt and its outcome

\* The state of the report pipeline.
reportVars == <<ai_analysis, clock, reports, exports>>

\* The state of the API.
apiVars == <<access, audit_log, analyzer, http>>

\* The state of the audit logger's and the encryption service's callers.
securityVars == <<audit_call, cipher, crypto>>

vars == <<complaint, documents, settings, result, response_text, parsed, reportVars,
          tasks, apiVars, securityVars>>

(***************************************************************************)
(* Bounds of the model.                                                    *)
(***************************************************************************)
MaxDocs == 2
MaxExternalDocs == 1
MaxSegments == 4

(***************************************************************************)
(* src/src/core/models.py                                                  *)
(***************************************************************************)
PUBLIC == "public"
CONFIDENTIAL == "confidential"
RESTRICTED == "restricted"
PHI == "phi"
CFR2 == "cfr2"

SecurityClassification == {PUBLIC, CONFIDENTIAL, RESTRICTED, PHI, CFR2}

\* The attributes of a Document that the compliance evaluators read.
Document == [security_classification : SecurityClassification, encrypted : BOOLEAN]

\* Python's None.
NONE == "<None>"

\* bool(v) for v a str or None.
Truthy(v) == v # NONE /\ v # ""

\* getattr(obj, name, default)
getattr(obj, name, default) == IF name \in DOMAIN obj THEN obj[name] ELSE default

(***************************************************************************)
(* src/src/security/compliance.py                                          *)
(***************************************************************************)
\* The dict every evaluator returns: compliant is len(issues) == 0.
Verdict_warnings_block(issues, warnings) ==
    [compliant |-> Len(issues) = 0 /\ Len(warnings) = 0,
     issues |-> issues, warnings |-> warnings]

Verdict(issues, warnings) ==
    [compliant |-> Len(issues) = 0, issues |-> issues, warnings |-> warnings]

check_hipaa_compliance_perdoc(c, docs) ==
    LET phi_docs == SelectSeq(docs, LAMBDA d : d.security_classification = PHI)
        unencrypted_phi == SelectSeq(phi_docs, LAMBDA d : ~d.encrypted)
        issues == [i \in 1..Len(unencrypted_phi) |-> "PHI documents must be encrypted"]
    IN  Verdict(issues, <<>>)

\* (an issues list shared by all calls)
check_hipaa_compliance_shared_issues(c, docs) ==
    LET phi_docs == SelectSeq(docs, LAMBDA d : d.security_classification = PHI)
        unencrypted == \E i \in 1..Len(phi_docs) : ~phi_docs[i].encrypted
        earlier == \E t \in DOMAIN tasks :
                      /\ "hipaa" \in DOMAIN tasks[t].verdicts
                      /\ tasks[t].verdicts["hipaa"].issues # <<>>
    IN  Verdict(IF unencrypted \/ earlier
                THEN <<"PHI documents must be encrypted">> ELSE <<>>, <<>>)

check_hipaa_compliance(c, docs) ==
    LET phi_docs == SelectSeq(docs, LAMBDA d : d.security_classification = PHI)
        unencrypted_phi == SelectSeq(phi_docs, LAMBDA d : ~d.encrypted)
        issues == IF Len(phi_docs) > 0 /\ Len(unencrypted_phi) > 0
                  THEN <<"PHI documents must be encrypted">>
                  ELSE <<>>
    IN  Verdict(issues, <<>>)

check_cfr2_compliance_warn_unencrypted(c, docs) ==
    LET cfr2_docs == SelectSeq(docs, LAMBDA d : d.security_classification = CFR2)
        unencrypted_cfr2 == SelectSeq(cfr2_docs, LAMBDA d : ~d.encrypted)
        issues == IF Len(cfr2_docs) > 0 /\ Len(unencrypted_cfr2) > 0
                  THEN <<"42 CFR Part 2 documents must be encrypted">>
                  ELSE <<>>
        warnings == IF Len(unencrypted_cfr2) > 0
                    THEN <<"Verify written consent for 42 CFR Part 2 disclosures">>
                    ELSE <<>>
    IN  Verdict(issues, warnings)

check_cfr2_compliance_any_protected(c, docs) ==
    LET cfr2_docs == SelectSeq(docs, LAMBDA d : d.security_classification = CFR2)
        unencrypted == SelectSeq(docs, LAMBDA d : d.security_classification \in {PHI, CFR2}
                                                  /\ ~d.encrypted)
        issues == IF Len(unencrypted) > 0
                  THEN <<"42 CFR Part 2 documents must be encrypted">>
                  ELSE <<>>
        warnings == IF Len(cfr2_docs) > 0
                    THEN <<"Verify written consent for 42 CFR Part 2 disclosures">>
                    ELSE <<>>
    IN  Verdict(issues, warnings)

check_cfr2_compliance(c, docs) ==
    LET cfr2_docs == SelectSeq(docs, LAMBDA d : d.security_classification = CFR2)
        unencrypted_cfr2 == SelectSeq(cfr2_docs, LAMBDA d : ~d.encrypted)
        issues == IF Len(cfr2_docs) > 0 /\ Len(unencrypted_cfr2) > 0
                  THEN <<"42 CFR Part 2 documents must be encrypted">>
                  ELSE <<>>
        warnings == IF Len(cfr2_docs) > 0
                    THEN <<"Verify written consent for 42 CFR Part 2 disclosures">>
                    ELSE <<>>
    IN  Verdict(issues, warnings)

\* The threshold of the retention check: "if retention_days < 2555".
MinRetentionDays == 2555

\* settings.py: ND_RECORD_RETENTION_DAYS: int = 2555
DefaultRetentionDays == 2555

required_fields ==
    <<"complaint_number", "licensee_name", "licensee_license_number",
      "complaint_description">>

\* The retention check: the warnings list after it.
RetentionWarnings_inclusive(retention_days) ==
    IF retention_days <= MinRetentionDays
    THEN <<"Record retention set to " \o ToString(retention_days)
           \o " days, verify compliance with ND law">>
    ELSE <<>>

RetentionWarnings(retention_days) ==
    IF retention_days < MinRetentionDays
    THEN <<"Record retention set to " \o ToString(retention_days)
           \o " days, verify compliance with ND law">>
    ELSE <<>>

\* "for field in required_fields: if not getattr(complaint, field, None): ..."
\* from the i-th field on, issues being the list so far.
RECURSIVE RequiredFieldIssues_absent_only(_, _, _)
RequiredFieldIssues_absent_only(c, i, issues) ==
    IF i > Len(required_fields) THEN issues
    ELSE RequiredFieldIssues_absent_only(c, i + 1,
            IF getattr(c, required_fields[i], NONE) = NONE
            THEN Append(issues, "Missing required field: " \o required_fields[i])
            ELSE issues)

RECURSIVE RequiredFieldIssues(_, _, _)
RequiredFieldIssues(c, i, issues) ==
    IF i > Len(required_fields) THEN issues
    ELSE RequiredFieldIssues(c, i + 1,
            IF ~Truthy(getattr(c, required_fields[i], NONE))
            THEN Append(issues, "Missing required field: " \o required_fields[i])
            ELSE issues)

check_nd_state_law_compliance(c) ==
    LET retention_days == settings.ND_RECORD_RETENTION_DAYS
        warnings == RetentionWarnings(retention_days)
        issues == RequiredFieldIssues(c, 1, <<>>)
    IN  Verdict(issues, warnings)

\* The aggregate of three verdicts, as comprehensive_compliance_check builds it.
Aggregate_any(hipaa, cfr2, nd_law) ==
    [overall_compliant |-> hipaa.compliant \/ cfr2.compliant \/ nd_law.compliant,
     hipaa |-> hipaa, cfr2 |-> cfr2, nd_state_law |-> nd_law,
     all_issues |-> hipaa.issues \o cfr2.issues \o nd_law.issues,
     all_warnings |-> hipaa.warnings \o cfr2.warnings \o nd_law.warnings]

Aggregate_nd_first(hipaa, cfr2, nd_law) ==
    [overall_compliant |-> hipaa.compliant /\ cfr2.compliant /\ nd_law.compliant,
     hipaa |-> hipaa, cfr2 |-> cfr2, nd_state_law |-> nd_law,
     all_issues |-> nd_law.issues \o hipaa.issues \o cfr2.issues,
     all_warnings |-> hipaa.warnings \o cfr2.warnings \o nd_law.warnings]

Aggregate_hipaa_issues(hipaa, cfr2, nd_law) ==
    [overall_compliant |-> hipaa.compliant /\ cfr2.compliant /\ nd_law.compliant,
     hipaa |-> hipaa, cfr2 |-> cfr2, nd_state_law |-> nd_law,
     all_issues |-> hipaa.issues,
     all_warnings |-> hipaa.warnings \o cfr2.warnings \o nd_law.warnings]

Aggregate(hipaa, cfr2, nd_law) ==
    [overall_compliant |-> hipaa.compliant /\ cfr2.compliant /\ nd_law.compliant,
     hipaa |-> hipaa, cfr2 |-> cfr2, nd_state_law |-> nd_law,
     all_issues |-> hipaa.issues \o cfr2.issues \o nd_law.issues,
     all_warnings |-> hipaa.warnings \o cfr2.warnings \o nd_law.warnings]

comprehensive_compliance_check(c, docs) ==
    Aggregate(check_hipaa_compliance(c, docs),
              check_cfr2_compliance(c, docs),
              check_nd_state_law_compliance(c))

(***************************************************************************)
(* Python str operations used by src/src/ai/analyzer.py.  A text is a      *)
(* sequence of characters, each a one-character string; positions are      *)
(* counted from 0 as in Python.  The backtick cannot be written in a TLA+  *)
(* string, so the atom BACKTICK stands for it.                             *)
(***************************************************************************)
BACKTICK == "BACKTICK"

\* "```json" and "```"
FENCE_JSON == <<BACKTICK, BACKTICK, BACKTICK, "j", "s", "o", "n">>
FENCE == <<BACKTICK, BACKTICK, BACKTICK>>

\* The characters str.strip() removes.
StripChars == {" ", "\t", "\n", "\r", "\f"}

Min(S) == CHOOSE x \in S : \A y \in S : x <= y
Max(S) == CHOOSE x \in S : \A y \in S : x >= y

\* s[i:i+len(sub)] == sub
MatchAt(s, i, sub) ==
    /\ i >= 0
    /\ i + Len(sub) <= Len(s)
    /\ \A k \in 1..Len(sub) : s[i + k] = sub[k]

\* s.find(sub, start)
Find(s, sub, start) ==
    LET hits == {i \in start..(Len(s) - Len(sub)) : MatchAt(s, i, sub)}
    IN  IF hits = {} THEN -1 ELSE Min(hits)

\* s.rfind(sub)
RFind(s, sub) ==
    LET hits == {i \in 0..(Len(s) - Len(sub)) : MatchAt(s, i, sub)}
    IN  IF hits = {} THEN -1 ELSE Max(hits)

\* sub in s
In(sub, s) == Find(s, sub, 0) >= 0

\* s[a:b]: a negative bound counts from the end, bounds are clipped.
Slice(s, a, b) ==
    LET n == Len(s)
        clip(x) == IF x < 0 THEN (IF x + n < 0 THEN 0 ELSE x + n)
                   ELSE IF x > n THEN n ELSE x
        lo == clip(a)
        hi == clip(b)
    IN  IF lo >= hi THEN <<>> ELSE SubSeq(s, lo + 1, hi)

\* s.strip()
Strip(s) ==
    LET keep == {i \in 1..Len(s) : s[i] \notin StripChars}
    IN  IF keep = {} THEN <<>> ELSE SubSeq(s, Min(keep), Max(keep))

\* s.startswith(sub)
StartsWith(s, sub) == MatchAt(s, 0, sub)

\* s[i:i+1]: the character at i, or the empty string past the end.
CharAt(s, i) == IF i >= 0 /\ i < Len(s) THEN s[i + 1] ELSE ""

(***************************************************************************)
(* Python values as json.loads builds them.  Every value is a record of    *)
(* the same shape, told apart by its tag t:                                *)
(*   "str"   s      the string                                             *)
(*   "int"   n      the integer                                            *)
(*   "float" n, d   the number n / 10^d, n not a multiple of 10 when d > 0 *)
(*   "bool"  n      1 for True, 0 for False                                *)
(*   "None", "nan", "inf", "-inf"                                          *)
(*   "list"  items  the elements                                           *)
(*   "dict"  fields the function from the keys to their values             *)
(***************************************************************************)
PyValue(t, s, n, d, items, fields) ==
    [t |-> t, s |-> s, n |-> n, d |-> d, items |-> items, fields |-> fields]

PyStr(s) == PyValue("str", s, 0, 0, <<>>, <<>>)
PyInt(n) == PyValue("int", "", n, 0, <<>>, <<>>)
PyFloat(n, d) == PyValue("float", "", n, d, <<>>, <<>>)
PyBool(b) == PyValue("bool", "", IF b THEN 1 ELSE 0, 0, <<>>, <<>>)
PyAtom(t) == PyValue(t, "", 0, 0, <<>>, <<>>)
PyNone == PyAtom("None")
PyList(items) == PyValue("list", "", 0, 0, items, <<>>)
PyDict(fields) == PyValue("dict", "", 0, 0, <<>>, fields)

(***************************************************************************)
(* json.loads (json.decoder / json.scanner of the standard library): the   *)
(* result of a scan is [ok, value, end], end the position after the value. *)
(* A text of the model holds no backslash, so the escapes of a JSON string *)
(* are not modelled.                                                       *)
(***************************************************************************)
JsonWhitespace == {" ", "\t", "\n", "\r"}

\* Characters json rejects inside a string (strict mode): below U+0020.
ControlChars == {"\t", "\n", "\r", "\f"}

Digits == {"0", "1", "2", "3", "4", "5", "6", "7", "8", "9"}

DigitValue(c) ==
    CASE c = "0" -> 0 [] c = "1" -> 1 [] c = "2" -> 2 [] c = "3" -> 3 [] c = "4" -> 4
      [] c = "5" -> 5 [] c = "6" -> 6 [] c = "7" -> 7 [] c = "8" -> 8 [] c = "9" -> 9

ScanFail == [ok |-> FALSE, value |-> PyNone, end |-> 0]
ScanOk(v, e) == [ok |-> TRUE, value |-> v, end |-> e]

\* WHITESPACE.match(s, i).end()
RECURSIVE SkipWhitespace(_, _)
SkipWhitespace(s, i) ==
    IF CharAt(s, i) \in JsonWhitespace THEN SkipWhitespace(s, i + 1) ELSE i

\* The position after the run of digits that starts at i.
RECURSIVE SkipDigits(_, _)
SkipDigits(s, i) ==
    IF CharAt(s, i) \in Digits THEN SkipDigits(s, i + 1) ELSE i

\* int(s[i:j]) for a run of digits, continuing from acc.
RECURSIVE DigitsValue(_, _, _, _)
DigitsValue(s, i, j, acc) ==
    IF i >= j THEN acc ELSE DigitsValue(s, i + 1, j, 10 * acc + DigitValue(s[i + 1]))

RECURSIVE Pow10(_)
Pow10(k) == IF k <= 0 THEN 1 ELSE 10 * Pow10(k - 1)

\* n / 10^d with the trailing zeros of the fraction removed.
RECURSIVE NormalFloat(_, _)
NormalFloat(n, d) ==
    IF d < 0 THEN PyFloat(n * Pow10(-d), 0)
    ELSE IF d > 0 /\ n % 10 = 0 THEN NormalFloat(n \div 10, d - 1)
    ELSE PyFloat(n, d)

\* py_scanstring(s, i): i is the position after the opening quote.
RECURSIVE ScanString(_, _, _)
ScanString(s, i, acc) ==
    LET c == CharAt(s, i)
    IN  IF c = "" THEN ScanFail
        ELSE IF c = "\"" THEN ScanOk(PyStr(acc), i + 1)
        ELSE IF c \in ControlChars THEN ScanFail
        ELSE ScanString(s, i + 1, acc \o c)

\* NUMBER_RE.match(s, i): (-?(?:0|[1-9]\d*))(\.\d+)?([eE][-+]?\d+)?
MatchNumber(s, i) ==
    LET neg == CharAt(s, i) = "-"
        i1 == IF neg THEN i + 1 ELSE i
        i2 == IF CharAt(s, i1) = "0" THEN i1 + 1 ELSE SkipDigits(s, i1)
        hasFrac == CharAt(s, i2) = "." /\ CharAt(s, i2 + 1) \in Digits
        i3 == IF hasFrac THEN SkipDigits(s, i2 + 1) ELSE i2
        e1 == IF CharAt(s, i3 + 1) \in {"+", "-"} THEN i3 + 2 ELSE i3 + 1
        hasExp == CharAt(s, i3) \in {"e", "E"} /\ CharAt(s, e1) \in Digits
        i4 == IF hasExp THEN SkipDigits(s, e1) ELSE i3
        sign == IF neg THEN -1 ELSE 1
        integer == DigitsValue(s, i1, i2, 0)
        fracLen == IF hasFrac THEN i3 - (i2 + 1) ELSE 0
        mantissa == IF hasFrac THEN DigitsValue(s, i2 + 1, i3, integer) ELSE integer
        exponent == IF ~hasExp THEN 0
                    ELSE IF CharAt(s, i3 + 1) = "-" THEN -DigitsValue(s, e1, i4, 0)
                    ELSE DigitsValue(s, e1, i4, 0)
    IN  IF i2 = i1 THEN ScanFail
        ELSE IF hasFrac \/ hasExp
             THEN ScanOk(NormalFloat(sign * mantissa, fracLen - exponent), i4)
        ELSE ScanOk(PyInt(sign * integer), i4)

\* scan_once, JSONObject and JSONArray call each other.
RECURSIVE ScanOnce(_, _)
RECURSIVE ObjectMembers(_, _, _)
RECURSIVE ArrayItems(_, _, _)

\* JSONObject((s, end)): end is the position after the opening brace.
JSONObject(s, end) ==
    LET e1 == IF CharAt(s, end) # "\"" THEN SkipWhitespace(s, end) ELSE end
        nextchar == CharAt(s, e1)
    IN  IF nextchar = "}" THEN ScanOk(PyDict(<<>>), e1 + 1)
        ELSE IF nextchar # "\"" THEN ScanFail
        ELSE ObjectMembers(s, e1 + 1, <<>>)

\* The "while True" loop of JSONObject: end is the position after the
\* opening quote of a key, fields the pairs read so far (a later pair with
\* the same key replaces the earlier one, as dict(pairs) does).
ObjectMembers(s, end, fields) ==
    LET key == ScanString(s, end, "")
        e1 == IF CharAt(s, key.end) # ":" THEN SkipWhitespace(s, key.end) ELSE key.end
        e2 == SkipWhitespace(s, e1 + 1)
        item == ScanOnce(s, e2)
        e3 == SkipWhitespace(s, item.end)
        nextchar == CharAt(s, e3)
        pairs == (key.value.s :> item.value) @@ fields
        e4 == SkipWhitespace(s, e3 + 1)
    IN  IF ~key.ok THEN ScanFail
        ELSE IF CharAt(s, e1) # ":" THEN ScanFail
        ELSE IF ~item.ok THEN ScanFail
        ELSE IF nextchar = "}" THEN ScanOk(PyDict(pairs), e3 + 1)
        ELSE IF nextchar # "," THEN ScanFail
        ELSE IF CharAt(s, e4) # "\"" THEN ScanFail
        ELSE ObjectMembers(s, e4 + 1, pairs)

\* JSONArray((s, end)): end is the position after the opening bracket.
JSONArray(s, end) ==
    LET e1 == SkipWhitespace(s, end)
    IN  IF CharAt(s, e1) = "]" THEN ScanOk(PyList(<<>>), e1 + 1)
        ELSE ArrayItems(s, e1, <<>>)

\* The "while True" loop of JSONArray.
ArrayItems(s, end, values) ==
    LET item == ScanOnce(s, end)
        e1 == SkipWhitespace(s, item.end)
        nextchar == CharAt(s, e1)
        e2 == SkipWhitespace(s, e1 + 1)
    IN  IF ~item.ok THEN ScanFail
        ELSE IF nextchar = "]" THEN ScanOk(PyList(Append(values, item.value)), e1 + 1)
        ELSE IF nextchar # "," THEN ScanFail
        ELSE ArrayItems(s, e2, Append(values, item.value))

\* scan_once(s, idx)
ScanOnce(s, idx) ==
    LET nextchar == CharAt(s, idx)
        number == MatchNumber(s, idx)
    IN  IF nextchar = "" THEN ScanFail
        ELSE IF nextchar = "\"" THEN ScanString(s, idx + 1, "")
        ELSE IF nextchar = "{" THEN JSONObject(s, idx + 1)
        ELSE IF nextchar = "[" THEN JSONArray(s, idx + 1)
        ELSE IF MatchAt(s, idx, <<"n", "u", "l", "l">>) THEN ScanOk(PyNone, idx + 4)
        ELSE IF MatchAt(s, idx, <<"t", "r", "u", "e">>) THEN ScanOk(PyBool(TRUE), idx + 4)
        ELSE IF MatchAt(s, idx, <<"f", "a", "l", "s", "e">>)
             THEN ScanOk(PyBool(FALSE), idx + 5)
        ELSE IF number.ok THEN number
        ELSE IF MatchAt(s, idx, <<"N", "a", "N">>) THEN ScanOk(PyAtom("nan"), idx + 3)
        ELSE IF MatchAt(s, idx, <<"I", "n", "f", "i", "n", "i", "t", "y">>)
             THEN ScanOk(PyAtom("inf"), idx + 8)
        ELSE IF MatchAt(s, idx, <<"-", "I", "n", "f", "i", "n", "i", "t", "y">>)
             THEN ScanOk(PyAtom("-inf"), idx + 9)
        ELSE ScanFail

\* json.loads(s): [ok, value]; ok is FALSE when JSONDecodeError is raised.
json_loads(s) ==
    LET obj == ScanOnce(s, SkipWhitespace(s, 0))
        end == SkipWhitespace(s, obj.end)
    IN  IF ~obj.ok THEN [ok |-> FALSE, value |-> PyNone]
        ELSE IF end # Len(s) THEN [ok |-> FALSE, value |-> PyNone]
        ELSE [ok |-> TRUE, value |-> obj.value]

(***************************************************************************)
(* src/src/ai/analyzer.py: ComplaintAnalyzer._parse_analysis_response      *)
(***************************************************************************)
\* The structured default response returned when nothing was decoded.
FallbackDefault_zero_confidence ==
    PyDict([key_findings |-> PyList(<<PyStr("Analysis completed. Review required.")>>),
            recommended_strategies |-> PyList(<<PyStr("Conduct thorough investigation")>>),
            risk_assessment |->
                PyDict([level |-> PyStr("medium"),
                        factors |-> PyList(<<PyStr("Requires manual review")>>),
                        urgency |-> PyStr("medium")]),
            compliance_notes |-> PyList(<<PyStr("Ensure HIPAA compliance in investigation")>>),
            confidence_score |-> PyFloat(0, 0)])

FallbackDefault ==
    PyDict([key_findings |-> PyList(<<PyStr("Analysis completed. Review required.")>>),
            recommended_strategies |-> PyList(<<PyStr("Conduct thorough investigation")>>),
            risk_assessment |->
                PyDict([level |-> PyStr("medium"),
                        factors |-> PyList(<<PyStr("Requires manual review")>>),
                        urgency |-> PyStr("medium")]),
            compliance_notes |-> PyList(<<PyStr("Ensure HIPAA compliance in investigation")>>),
            confidence_score |-> PyFloat(5, 1)])

\* The text handed on to decoding: the interior of the first block fenced
\* with "```json", else of the first fenced block, else the whole text,
\* stripped.  find returns -1 for a fence that is never closed, and the
\* slice then ends before the last character.
SelectedText(response_text_) ==
    IF In(FENCE_JSON, response_text_)
    THEN LET json_start == Find(response_text_, FENCE_JSON, 0) + 7
             json_end == Find(response_text_, FENCE, json_start)
         IN  Strip(Strip(Slice(response_text_, json_start, json_end)))
    ELSE IF In(FENCE, response_text_)
    THEN LET json_start == Find(response_text_, FENCE, 0) + 3
             json_end == Find(response_text_, FENCE, json_start)
         IN  Strip(Strip(Slice(response_text_, json_start, json_end)))
    ELSE Strip(Strip(response_text_))

\* The outcome of "return json.loads(...)" inside the try block: the decoded
\* value, or, JSONDecodeError being caught and logged, the default response.
\* An outcome is [raised, value, decode]: raised tells whether an exception
\* leaves the method, decode whether json.loads was called and how it ended.
Decoded_uncaught(r) ==
    IF r.ok THEN [raised |-> FALSE, value |-> r.value, decode |-> "ok"]
    ELSE [raised |-> TRUE, value |-> PyNone, decode |-> "error"]

Decoded(r) ==
    IF r.ok THEN [raised |-> FALSE, value |-> r.value, decode |-> "ok"]
    ELSE [raised |-> FALSE, value |-> FallbackDefault, decode |-> "error"]

_parse_analysis_response_first_closing_brace(response_text_) ==
    LET json_text == SelectedText(response_text_)
        start == Find(json_text, <<"{">>, 0)
        end == Find(json_text, <<"}">>, 0) + 1
    IN  IF StartsWith(json_text, <<"{">>)
        THEN Decoded(json_loads(json_text))
        ELSE IF start >= 0 /\ end > start
        THEN Decoded(json_loads(Slice(json_text, start, end)))
        ELSE [raised |-> FALSE, value |-> FallbackDefault, decode |-> "none"]

_parse_analysis_response(response_text_) ==
    LET json_text == SelectedText(response_text_)
        start == Find(json_text, <<"{">>, 0)
        end == RFind(json_text, <<"}">>) + 1
    IN  IF StartsWith(json_text, <<"{">>)
        THEN Decoded(json_loads(json_text))
        ELSE IF start >= 0 /\ end > start
        THEN Decoded(json_loads(Slice(json_text, start, end)))
        ELSE [raised |-> FALSE, value |-> FallbackDefault, decode |-> "none"]

(***************************************************************************)
(* src/src/ai/analyzer.py: ComplaintAnalyzer.analyze_complaint, from the   *)
(* parsed response to the AIAnalysis object.                               *)
(***************************************************************************)
\* dict.get(key, default)
dict_get(d, key, default) == IF key \in DOMAIN d.fields THEN d.fields[key] ELSE default

\* settings.OPENAI_MODEL, the model_version of an analysis.
OPENAI_MODEL == "gpt-4-turbo-preview"

\* The field types AIAnalysis declares: List[str], Dict[str, Any], and a
\* float with ge=0.0 and le=1.0 (an int in range is taken as that float).
IsListOfStr(v) == v.t = "list" /\ \A i \in 1..Len(v.items) : v.items[i].t = "str"

IsDict(v) == v.t = "dict"

IsUnitFloat(v) == v.t \in {"float", "int"} /\ 0 <= v.n /\ v.n <= Pow10(v.d)

\* The keyword arguments of AIAnalysis(...) taken from the parsed response.
AIAnalysisFields_fallback_for_missing(analysis_result) ==
    [key_findings |->
        dict_get(analysis_result, "key_findings", FallbackDefault.fields.key_findings),
     recommended_strategies |->
        dict_get(analysis_result, "recommended_strategies",
                 FallbackDefault.fields.recommended_strategies),
     risk_assessment |->
        dict_get(analysis_result, "risk_assessment", FallbackDefault.fields.risk_assessment),
     compliance_notes |->
        dict_get(analysis_result, "compliance_notes", FallbackDefault.fields.compliance_notes),
     confidence_score |->
        dict_get(analysis_result, "confidence_score",
                 FallbackDefault.fields.confidence_score)]

AIAnalysisFields(analysis_result) ==
    [key_findings |-> dict_get(analysis_result, "key_findings", PyList(<<>>)),
     recommended_strategies |->
        dict_get(analysis_result, "recommended_strategies", PyList(<<>>)),
     risk_assessment |-> dict_get(analysis_result, "risk_assessment", PyDict(<<>>)),
     compliance_notes |-> dict_get(analysis_result, "compliance_notes", PyList(<<>>)),
     confidence_score |-> dict_get(analysis_result, "confidence_score", PyFloat(0, 0))]

AIAnalysis_any_confidence(complaint_id, fields, model_version) ==
    IF /\ IsListOfStr(fields.key_findings)
       /\ IsListOfStr(fields.recommended_strategies)
       /\ IsDict(fields.risk_assessment)
       /\ IsListOfStr(fields.compliance_notes)
       /\ fields.confidence_score.t \in {"float", "int"}
    THEN [raised |-> FALSE,
          value |-> [complaint_id |-> complaint_id,
                     key_findings |-> fields.key_findings,
                     recommended_strategies |-> fields.recommended_strategies,
                     risk_assessment |-> fields.risk_assessment,
                     compliance_notes |-> fields.compliance_notes,
                     confidence_score |->
                         PyFloat(fields.confidence_score.n, fields.confidence_score.d),
                     model_version |-> model_version]]
    ELSE [raised |-> TRUE, value |-> PyNone]

\* AIAnalysis(**fields): [raised, value]; raised when a field does not have
\* its declared type (pydantic's ValidationError).
AIAnalysis(complaint_id, fields, model_version) ==
    IF /\ IsListOfStr(fields.key_findings)
       /\ IsListOfStr(fields.recommended_strategies)
       /\ IsDict(fields.risk_assessment)
       /\ IsListOfStr(fields.compliance_notes)
       /\ IsUnitFloat(fields.confidence_score)
    THEN [raised |-> FALSE,
          value |-> [complaint_id |-> complaint_id,
                     key_findings |-> fields.key_findings,
                     recommended_strategies |-> fields.recommended_strategies,
                     risk_assessment |-> fields.risk_assessment,
                     compliance_notes |-> fields.compliance_notes,
                     confidence_score |->
                         PyFloat(fields.confidence_score.n, fields.confidence_score.d),
                     model_version |-> model_version]]
    ELSE [raised |-> TRUE, value |-> PyNone]

\* analyze_complaint from the return of llm.invoke on: [outcome, analysis],
\* outcome what _parse_analysis_response did, analysis what is returned.
analyze_complaint(c, response_content) ==
    LET complaint_id == IF Truthy(getattr(c, "id", NONE)) THEN c["id"] ELSE ""
        \* ai_analysis = AIAnalysis(...), from the analysis_result held
        made(outcome) ==
            [outcome |-> outcome,
             analysis |->
                IF outcome.raised THEN [raised |-> TRUE, value |-> PyNone]
                ELSE CHOOSE ai_analysis_ \in
                        {AIAnalysis(complaint_id, fields, OPENAI_MODEL) :
                            fields \in {AIAnalysisFields(outcome.value)}} : TRUE]
    \* analysis_result = self._parse_analysis_response(response.content), once
    IN  CHOOSE r \in {made(outcome) :
                        outcome \in {_parse_analysis_response(response_content)}} : TRUE

(***************************************************************************)
(* Python strings as the report generator builds them.  A text of a report *)
(* is a TLA+ string; a dict whose key order is read (by .items()) is the   *)
(* sequence of its [k, v] pairs in insertion order; the values of such a   *)
(* dict are the tagged values above, a nested ordered dict being tagged    *)
(* "odict" with its pairs as items.                                        *)
(***************************************************************************)
PyOrdered(pairs) == PyValue("odict", "", 0, 0, pairs, <<>>)

Pair(k, v) == [k |-> k, v |-> v]

\* sep.join(parts)
RECURSIVE Join(_, _)
Join(parts, sep) ==
    IF parts = <<>> THEN ""
    ELSE IF Len(parts) = 1 THEN parts[1]
    ELSE parts[1] \o sep \o Join(Tail(parts), sep)

\* str * n
RECURSIVE Repeat(_, _)
Repeat(str, n) == IF n <= 0 THEN "" ELSE str \o Repeat(str, n - 1)

LowerCase == "abcdefghijklmnopqrstuvwxyz"
UpperCase == "ABCDEFGHIJKLMNOPQRSTUVWXYZ"

UpperChar(c) ==
    IF \E i \in 1..Len(LowerCase) : SubSeq(LowerCase, i, i) = c
    THEN LET i == CHOOSE j \in 1..Len(LowerCase) : SubSeq(LowerCase, j, j) = c
         IN  SubSeq(UpperCase, i, i)
    ELSE c

\* str.upper()
RECURSIVE Upper(_)
Upper(str) ==
    IF str = "" THEN ""
    ELSE UpperChar(SubSeq(str, 1, 1)) \o Upper(SubSeq(str, 2, Len(str)))

HasChar(str, c) == \E i \in 1..Len(str) : SubSeq(str, i, i) = c

\* n written with at least w digits, as %02d and %04d write it.
RECURSIVE ZeroPad(_, _)
ZeroPad(digits, w) == IF Len(digits) >= w THEN digits ELSE ZeroPad("0" \o digits, w)

\* repr(str) of a string without backslashes and unprintable characters:
\* in single quotes, in double quotes when it holds a single quote and no
\* double quote.
ReprStr(str) ==
    IF HasChar(str, "'") /\ ~HasChar(str, "\"") THEN "\"" \o str \o "\""
    ELSE "'" \o str \o "'"

\* repr(float) of n / 10^d.
ReprFloat(n, d) ==
    IF d = 0 THEN ToString(n) \o ".0"
    ELSE ToString(n \div Pow10(d)) \o "." \o ZeroPad(ToString(n % Pow10(d)), d)

\* repr(v)
RECURSIVE PyRepr(_)
PyRepr(v) ==
    IF v.t = "str" THEN ReprStr(v.s)
    ELSE IF v.t = "int" THEN ToString(v.n)
    ELSE IF v.t = "float" THEN ReprFloat(v.n, v.d)
    ELSE IF v.t = "bool" THEN (IF v.n = 1 THEN "True" ELSE "False")
    ELSE IF v.t = "list"
    THEN "[" \o Join([i \in 1..Len(v.items) |-> PyRepr(v.items[i])], ", ") \o "]"
    ELSE IF v.t = "odict"
    THEN "{" \o Join([i \in 1..Len(v.items) |->
                         ReprStr(v.items[i].k) \o ": " \o PyRepr(v.items[i].v)], ", ")
             \o "}"
    ELSE v.t

\* format(v, ""), what an f-string writes for {v}: str(v).
PyFormat(v) == IF v.t = "str" THEN v.s ELSE PyRepr(v)

\* isinstance(v, list), isinstance(v, dict)
IsList(v) == v.t = "list"

IsOrderedDict(v) == v.t = "odict"

\* dict.get(key, default) on the pairs of an ordered dict.
pairs_get(pairs, key, default) ==
    IF \E i \in 1..Len(pairs) : pairs[i].k = key
    THEN pairs[CHOOSE i \in 1..Len(pairs) : pairs[i].k = key].v
    ELSE default

(***************************************************************************)
(* datetime: [year, month, day, hour, minute, second], the microsecond     *)
(* being 0 and the year of four digits.                                    *)
(***************************************************************************)
\* strftime('%Y-%m-%d')
FormatDate(dt) ==
    ZeroPad(ToString(dt.year), 4) \o "-" \o ZeroPad(ToString(dt.month), 2)
        \o "-" \o ZeroPad(ToString(dt.day), 2)

\* the %H:%M:%S part
FormatTime(dt) ==
    ZeroPad(ToString(dt.hour), 2) \o ":" \o ZeroPad(ToString(dt.minute), 2)
        \o ":" \o ZeroPad(ToString(dt.second), 2)

\* datetime.isoformat()
isoformat(dt) == FormatDate(dt) \o "T" \o FormatTime(dt)

(***************************************************************************)
(* src/src/reports/generator.py: ReportGenerator.  A Complaint, a Document *)
(* and an AIAnalysis are the functions from their attribute names to their *)
(* values; the lists of an AIAnalysis are tagged lists of tagged strings,  *)
(* its risk_assessment an ordered dict.                                    *)
(***************************************************************************)
\* x or default, for x a str or None
OrDefault(x, default) == IF Truthy(x) THEN x ELSE default

\* The numbered lines of the "KEY FINDINGS:" block:
\* for i, finding in enumerate(ai_analysis.key_findings[:5], 1).
FindingLines_untruncated(key_findings) ==
    [i \in 1..Len(key_findings.items) |-> ToString(i) \o ". " \o key_findings.items[i].s]

FindingLines(key_findings) ==
    LET top == SubSeq(key_findings.items, 1, Min({5, Len(key_findings.items)}))
    IN  [i \in 1..Len(top) |-> ToString(i) \o ". " \o top[i].s]

\* The last line of the executive summary.
ComplianceStatusLine_warnings_count(compliance_status) ==
    "COMPLIANCE STATUS: " \o
        (IF compliance_status.overall_compliant /\ compliance_status.all_warnings = <<>>
         THEN "COMPLIANT" ELSE "ISSUES IDENTIFIED")

ComplianceStatusLine(compliance_status) ==
    "COMPLIANCE STATUS: " \o
        (IF compliance_status.overall_compliant THEN "COMPLIANT" ELSE "ISSUES IDENTIFIED")

_generate_executive_summary(c, ai_analysis_, compliance_status) ==
    LET risk == ai_analysis_.risk_assessment.items
        summary_parts ==
            <<"Investigation Report: " \o c.complaint_number,
              "Licensee: " \o c.licensee_name
                  \o " (License: " \o c.licensee_license_number \o ")",
              "Status: " \o c.status,
              "",
              "EXECUTIVE SUMMARY",
              "This report summarizes the investigation of complaint "
                  \o c.complaint_number \o " received on "
                  \o FormatDate(c.received_date) \o ".",
              "",
              "KEY FINDINGS:">>
            \o FindingLines(ai_analysis_.key_findings)
            \o <<"",
                 "RISK ASSESSMENT: "
                     \o Upper(pairs_get(risk, "level", PyStr("unknown")).s),
                 "  Urgency: " \o PyFormat(pairs_get(risk, "urgency", PyStr("unknown"))),
                 "",
                 ComplianceStatusLine(compliance_status)>>
    IN  Join(summary_parts, "\n")

_prepare_complaint_details(c, complaint_docs) ==
    <<Pair("complaint_number", PyStr(c.complaint_number)),
      Pair("received_date", PyStr(isoformat(c.received_date))),
      Pair("complainant", PyStr(OrDefault(c.complainant_name, "Not disclosed"))),
      Pair("licensee_name", PyStr(c.licensee_name)),
      Pair("licensee_license_number", PyStr(c.licensee_license_number)),
      Pair("description", PyStr(c.complaint_description)),
      Pair("status", PyStr(c.status)),
      Pair("assigned_investigator",
           PyStr(OrDefault(c.assigned_investigator, "Not assigned"))),
      Pair("security_classification", PyStr(c.security_classification)),
      Pair("associated_documents", PyInt(Len(complaint_docs))),
      Pair("document_list",
           PyList([i \in 1..Len(complaint_docs) |->
                      PyOrdered(<<Pair("filename", PyStr(complaint_docs[i].filename)),
                                  Pair("type", PyStr(complaint_docs[i].document_type)),
                                  Pair("uploaded",
                                       PyStr(isoformat(complaint_docs[i].uploaded_at)))>>)]))>>

_prepare_response_analysis(response_docs, ai_analysis_) ==
    <<Pair("response_documents_count", PyInt(Len(response_docs))),
      Pair("response_documents",
           PyList([i \in 1..Len(response_docs) |->
                      PyOrdered(<<Pair("filename", PyStr(response_docs[i].filename)),
                                  Pair("uploaded",
                                       PyStr(isoformat(response_docs[i].uploaded_at))),
                                  Pair("security_classification",
                                       PyStr(response_docs[i].security_classification))>>)])),
      Pair("ai_analysis_summary",
           PyOrdered(<<Pair("key_findings", ai_analysis_.key_findings),
                       Pair("confidence_score", ai_analysis_.confidence_score),
                       Pair("model_version", PyStr(ai_analysis_.model_version))>>))>>

_prepare_compliance_considerations_warnings_first(compliance_status) ==
    LET hipaa ==
            IF ~compliance_status.hipaa.compliant
            THEN <<"HIPAA COMPLIANCE ISSUES: "
                       \o Join(compliance_status.hipaa.issues, "; ")>>
            ELSE <<"HIPAA: Compliant">>
        cfr2 ==
            IF ~compliance_status.cfr2.compliant
            THEN <<"42 CFR PART 2 COMPLIANCE ISSUES: "
                       \o Join(compliance_status.cfr2.issues, "; ")>>
            ELSE IF compliance_status.cfr2.warnings # <<>>
            THEN <<"42 CFR PART 2 WARNINGS: "
                       \o Join(compliance_status.cfr2.warnings, "; ")>>
            ELSE <<"42 CFR Part 2: Compliant">>
        nd_law ==
            IF ~compliance_status.nd_state_law.compliant
            THEN <<"ND STATE LAW COMPLIANCE ISSUES: "
                       \o Join(compliance_status.nd_state_law.issues, "; ")>>
            ELSE <<"ND State Law: Compliant">>
        general ==
            IF compliance_status.all_warnings # <<>>
            THEN <<"GENERAL WARNINGS: " \o Join(compliance_status.all_warnings, "; ")>>
            ELSE <<>>
    IN  general \o hipaa \o cfr2 \o nd_law

_prepare_compliance_considerations(compliance_status) ==
    LET hipaa ==
            IF ~compliance_status.hipaa.compliant
            THEN <<"HIPAA COMPLIANCE ISSUES: "
                       \o Join(compliance_status.hipaa.issues, "; ")>>
            ELSE <<"HIPAA: Compliant">>
        cfr2 ==
            IF ~compliance_status.cfr2.compliant
            THEN <<"42 CFR PART 2 COMPLIANCE ISSUES: "
                       \o Join(compliance_status.cfr2.issues, "; ")>>
            ELSE IF compliance_status.cfr2.warnings # <<>>
            THEN <<"42 CFR PART 2 WARNINGS: "
                       \o Join(compliance_status.cfr2.warnings, "; ")>>
            ELSE <<"42 CFR Part 2: Compliant">>
        nd_law ==
            IF ~compliance_status.nd_state_law.compliant
            THEN <<"ND STATE LAW COMPLIANCE ISSUES: "
                       \o Join(compliance_status.nd_state_law.issues, "; ")>>
            ELSE <<"ND State Law: Compliant">>
        general ==
            IF compliance_status.all_warnings # <<>>
            THEN <<"GENERAL WARNINGS: " \o Join(compliance_status.all_warnings, "; ")>>
            ELSE <<>>
    IN  hipaa \o cfr2 \o nd_law \o general

\* The version every report is created with.
ReportVersion_counted == Len(reports) + 1

ReportVersion == 1

\* generate_panel_report; utcnow is what datetime.utcnow() returns.
generate_panel_report(c, docs, ai_analysis_, generated_by, utcnow) ==
    LET compliance_status == comprehensive_compliance_check(c, docs)
        complaint_docs == SelectSeq(docs, LAMBDA d : d.document_type = "complaint")
        response_docs == SelectSeq(docs, LAMBDA d : d.document_type = "response")
    IN  [complaint_id |-> OrDefault(c.id, ""),
         report_date |-> utcnow,
         executive_summary |->
             _generate_executive_summary(c, ai_analysis_, compliance_status),
         complaint_details |-> _prepare_complaint_details(c, complaint_docs),
         response_analysis |-> _prepare_response_analysis(response_docs, ai_analysis_),
         key_findings |-> ai_analysis_.key_findings,
         recommended_strategies |-> ai_analysis_.recommended_strategies,
         compliance_considerations |->
             _prepare_compliance_considerations(compliance_status),
         risk_assessment |-> ai_analysis_.risk_assessment,
         generated_by |-> generated_by,
         version |-> ReportVersion]

\* The lines export_report_to_text writes for one entry of complaint_details.
DetailLines(entry) ==
    IF IsList(entry.v)
    THEN <<entry.k \o ":">>
         \o [i \in 1..Len(entry.v.items) |-> "  - " \o PyFormat(entry.v.items[i])]
    ELSE <<entry.k \o ": " \o PyFormat(entry.v)>>

\* The lines it writes for one entry of response_analysis.
AnalysisLines(entry) ==
    IF IsList(entry.v)
    THEN <<entry.k \o ":">>
         \o [i \in 1..Len(entry.v.items) |-> "  - " \o PyFormat(entry.v.items[i])]
    ELSE IF IsOrderedDict(entry.v)
    THEN <<entry.k \o ":">>
         \o [i \in 1..Len(entry.v.items) |->
                "  " \o entry.v.items[i].k \o ": " \o PyFormat(entry.v.items[i].v)]
    ELSE <<entry.k \o ": " \o PyFormat(entry.v)>>

RECURSIVE FlatMap(_, _)
FlatMap(Op(_), seq) == IF seq = <<>> THEN <<>> ELSE Op(Head(seq)) \o FlatMap(Op, Tail(seq))

Numbered(list) == [i \in 1..Len(list.items) |-> ToString(i) \o ". " \o list.items[i].s]

Banner == Repeat("=", 80)

export_report_to_text_strategies_first(report) ==
    LET lines ==
            <<Banner, "INVESTIGATION REPORT", Banner,
              "Report Date: " \o FormatDate(report.report_date) \o " "
                  \o FormatTime(report.report_date) \o " UTC",
              "Complaint ID: " \o report.complaint_id,
              "Generated By: " \o report.generated_by,
              "Version: " \o ToString(report.version),
              "",
              report.executive_summary,
              "",
              Banner, "COMPLAINT DETAILS", Banner>>
            \o FlatMap(DetailLines, report.complaint_details)
            \o <<"", Banner, "RESPONSE ANALYSIS", Banner>>
            \o FlatMap(AnalysisLines, report.response_analysis)
            \o <<"", Banner, "RECOMMENDED STRATEGIES", Banner>>
            \o Numbered(report.recommended_strategies)
            \o <<"", Banner, "KEY FINDINGS", Banner>>
            \o Numbered(report.key_findings)
            \o <<"", Banner, "COMPLIANCE CONSIDERATIONS", Banner>>
            \o [i \in 1..Len(report.compliance_considerations) |->
                   "- " \o report.compliance_considerations[i]]
            \o <<"", Banner, "RISK ASSESSMENT", Banner>>
            \o [i \in 1..Len(report.risk_assessment.items) |->
                   report.risk_assessment.items[i].k \o ": "
                       \o PyFormat(report.risk_assessment.items[i].v)]
            \o <<"", Banner, "END OF REPORT", Banner>>
    IN  Join(lines, "\n")

export_report_to_text(report) ==
    LET lines ==
            <<Banner, "INVESTIGATION REPORT", Banner,
              "Report Date: " \o FormatDate(report.report_date) \o " "
                  \o FormatTime(report.report_date) \o " UTC",
              "Complaint ID: " \o report.complaint_id,
              "Generated By: " \o report.generated_by,
              "Version: " \o ToString(report.version),
              "",
              report.executive_summary,
              "",
              Banner, "COMPLAINT DETAILS", Banner>>
            \o FlatMap(DetailLines, report.complaint_details)
            \o <<"", Banner, "RESPONSE ANALYSIS", Banner>>
            \o FlatMap(AnalysisLines, report.response_analysis)
            \o <<"", Banner, "KEY FINDINGS", Banner>>
            \o Numbered(report.key_findings)
            \o <<"", Banner, "RECOMMENDED STRATEGIES", Banner>>
            \o Numbered(report.recommended_strategies)
            \o <<"", Banner, "COMPLIANCE CONSIDERATIONS", Banner>>
            \o [i \in 1..Len(report.compliance_considerations) |->
                   "- " \o report.compliance_considerations[i]]
            \o <<"", Banner, "RISK ASSESSMENT", Banner>>
            \o [i \in 1..Len(report.risk_assessment.items) |->
                   report.risk_assessment.items[i].k \o ": "
                       \o PyFormat(report.risk_assessment.items[i].v)]
            \o <<"", Banner, "END OF REPORT", Banner>>
    IN  Join(lines, "\n")

(***************************************************************************)
(* The inputs of the compliance evaluators.                                *)
(***************************************************************************)
RequiredFieldNames == {required_fields[i] : i \in 1..Len(required_fields)}

\* Complaint objects built by the Complaint model (src/src/core/models.py):
\* the four attributes are declared str, so each is there and holds a
\* string, which may be empty.
ConstructedComplaints == [RequiredFieldNames -> {"", "COMP-001"}]

\* What an attribute of an externally sourced complaint record may hold:
\* None, the empty string, a string of blanks, a proper value.
FieldValues == {NONE, "", " ", "COMP-001"}

\* Externally sourced records, which may also lack attributes.
ExternalComplaints == UNION {[S -> FieldValues] : S \in SUBSET RequiredFieldNames}

DocumentLists(max) == UNION {[1..n -> Document] : n \in 0..max}

\* settings.ND_RECORD_RETENTION_DAYS is read from the environment: the
\* values around the threshold, the default among them.
RetentionChoices ==
    {MinRetentionDays - 1, MinRetentionDays, MinRetentionDays + 1, DefaultRetentionDays}

NoCall == [op |-> "none"]

\* No AIAnalysis is held.
NoAnalysis == [complaint_id |-> NONE]

(***************************************************************************)
(* Specification of the compliance evaluators: the caller holds a complaint *)
(* record, a document list and the process settings, and calls the four    *)
(* static methods of ComplianceChecker in any order, any number of times.  *)
(* The complaint is a constructed Complaint with up to MaxDocs documents,  *)
(* or an externally sourced record with up to MaxExternalDocs documents.   *)
(***************************************************************************)
Init ==
    /\ \/ /\ complaint \in ConstructedComplaints
          /\ documents \in DocumentLists(MaxDocs)
       \/ /\ complaint \in ExternalComplaints
          /\ documents \in DocumentLists(MaxExternalDocs)
    /\ settings \in [ND_RECORD_RETENTION_DAYS : RetentionChoices]
    /\ result = NoCall
    /\ response_text = <<>>
    /\ parsed = NoCall
    /\ ai_analysis = NoAnalysis
    /\ clock = 0
    /\ reports = <<>>
    /\ exports = <<>>
    /\ tasks = <<>>
    /\ access = NoCall
    /\ audit_log = <<>>
    /\ analyzer = NONE
    /\ http = NoCall
    /\ audit_call = NoCall
    /\ cipher = NONE
    /\ crypto = NoCall

CallHipaa ==
    /\ result' = [op |-> "check_hipaa_compliance",
                  value |-> check_hipaa_compliance(complaint, documents)]
    /\ UNCHANGED <<securityVars, complaint, documents, settings, response_text, parsed, reportVars, tasks, apiVars>>

CallCfr2 ==
    /\ result' = [op |-> "check_cfr2_compliance",
                  value |-> check_cfr2_compliance(complaint, documents)]
    /\ UNCHANGED <<securityVars, complaint, documents, settings, response_text, parsed, reportVars, tasks, apiVars>>

CallNdStateLaw ==
    /\ result' = [op |-> "check_nd_state_law_compliance",
                  value |-> check_nd_state_law_compliance(complaint)]
    /\ UNCHANGED <<securityVars, complaint, documents, settings, response_text, parsed, reportVars, tasks, apiVars>>

CallComprehensive ==
    /\ result' = [op |-> "comprehensive_compliance_check",
                  value |-> comprehensive_compliance_check(complaint, documents)]
    /\ UNCHANGED <<securityVars, complaint, documents, settings, response_text, parsed, reportVars, tasks, apiVars>>

Next ==
    \/ CallHipaa
    \/ CallCfr2
    \/ CallNdStateLaw
    \/ CallComprehensive

Spec == Init /\ [][Next]_vars


(***************************************************************************)
(* The texts the text-generation call may return: up to MaxSegments pieces *)
(* in any order, each a fence, the start of the requested object, a        *)
(* further member, a brace, a piece of prose or a line break.  This yields *)
(* pure prose, objects in a closed or an unclosed fence, objects between   *)
(* prose, truncated objects and unbalanced braces.                         *)
(***************************************************************************)
Segments ==
    { FENCE_JSON,
      FENCE,
      \* {"key_findings":["a"]
      <<"{", "\"", "k", "e", "y", "_", "f", "i", "n", "d", "i", "n", "g", "s", "\"", ":",
        "[", "\"", "a", "\"", "]">>,
      \* ,"confidence_score":0.9
      <<",", "\"", "c", "o", "n", "f", "i", "d", "e", "n", "c", "e", "_",
        "s", "c", "o", "r", "e", "\"", ":", "0", ".", "9">>,
      <<"}">>,
      <<"{">>,
      \* " ok "
      <<" ", "o", "k", " ">>,
      <<"\n">> }

RECURSIVE Concat(_)
Concat(segs) == IF segs = <<>> THEN <<>> ELSE Head(segs) \o Concat(Tail(segs))

ResponseTexts ==
    {Concat(segs) : segs \in UNION {[1..n -> Segments] : n \in 0..MaxSegments}}

\* {"key_findings":["a"]}
KeyFindingsObject ==
    <<"{", "\"", "k", "e", "y", "_", "f", "i", "n", "d", "i", "n", "g", "s", "\"", ":",
      "[", "\"", "a", "\"", "]", "}">>

Prose == <<" ", "o", "k", " ">>

\* Responses in which a fenced block and text outside it both occur: an
\* object in a fence between prose, a plain fence ahead of a "```json"
\* fence, a fence whose interior does not decode ahead of an object, and a
\* closed fence ahead of a "```json" fence that is never closed.
WrappedTexts ==
    { Prose \o FENCE_JSON \o <<"\n">> \o KeyFindingsObject \o <<"\n">> \o FENCE \o Prose,
      Prose \o FENCE \o <<"\n">> \o KeyFindingsObject \o <<"\n">> \o FENCE \o Prose,
      FENCE \o Prose \o FENCE \o FENCE_JSON \o KeyFindingsObject \o FENCE,
      FENCE_JSON \o <<"{">> \o FENCE \o KeyFindingsObject,
      FENCE \o <<"{">> \o FENCE \o KeyFindingsObject,
      FENCE \o Prose \o FENCE \o FENCE_JSON \o KeyFindingsObject }

\* {"confidence_score":<number>}, the number written with the given characters.
ConfidenceObject(number) ==
    <<"{", "\"", "c", "o", "n", "f", "i", "d", "e", "n", "c", "e", "_",
      "s", "c", "o", "r", "e", "\"", ":">> \o number \o <<"}">>

\* Responses whose confidence_score is at the ends of the unit interval and
\* beyond them: 0, 1.0, 1.5, 2, -0.1 and, in a fence, 1.01.
ConfidenceTexts ==
    { ConfidenceObject(<<"0">>),
      ConfidenceObject(<<"1", ".", "0">>),
      ConfidenceObject(<<"1", ".", "5">>),
      ConfidenceObject(<<"2">>),
      ConfidenceObject(<<"-", "0", ".", "1">>),
      FENCE_JSON \o ConfidenceObject(<<"1", ".", "0", "1">>) \o FENCE }

(***************************************************************************)
(* Specification of the response parser: the text-generation call has      *)
(* returned a text, and analyze_complaint hands it to                      *)
(* _parse_analysis_response.                                               *)
(***************************************************************************)
ParserInit ==
    /\ complaint \in {[f \in RequiredFieldNames |-> "COMP-001"]}
    /\ documents = <<>>
    /\ settings = [ND_RECORD_RETENTION_DAYS |-> DefaultRetentionDays]
    /\ result = NoCall
    /\ response_text \in ResponseTexts \cup WrappedTexts \cup ConfidenceTexts
    /\ parsed = NoCall
    /\ ai_analysis = NoAnalysis
    /\ clock = 0
    /\ reports = <<>>
    /\ exports = <<>>
    /\ tasks = <<>>
    /\ access = NoCall
    /\ audit_log = <<>>
    /\ analyzer = NONE
    /\ http = NoCall
    /\ audit_call = NoCall
    /\ cipher = NONE
    /\ crypto = NoCall

ParseResponse ==
    /\ parsed.op = "none"
    /\ parsed' = [op |-> "_parse_analysis_response",
                  outcome |-> _parse_analysis_response(response_text)]
    /\ UNCHANGED <<securityVars, complaint, documents, settings, result, response_text, reportVars, tasks, apiVars>>

\* analyze_complaint, from the text the text-generation call returned.
AnalyzeComplaint ==
    /\ parsed.op = "none"
    /\ parsed' = [op |-> "analyze_complaint"] @@ analyze_complaint(complaint, response_text)
    /\ UNCHANGED <<securityVars, complaint, documents, settings, result, response_text, reportVars, tasks, apiVars>>

ParserNext ==
    \/ ParseResponse
    \/ AnalyzeComplaint

ParserSpec == ParserInit /\ [][ParserNext]_vars

(***************************************************************************)
(* The inputs of the report generator.                                     *)
(***************************************************************************)
MaxFindings == 8
MaxCalls == 3

Datetime(year, month, day, hour, minute, second) ==
    [year |-> year, month |-> month, day |-> day,
     hour |-> hour, minute |-> minute, second |-> second]

\* The n-th reading of datetime.utcnow(): successive instants.
utcnow(n) == Datetime(2024, 3, 9, 8, 5, n)

\* Complaints built by the Complaint model; status and
\* security_classification have their declared defaults.
ReportComplaint(id, licensee_name, complainant_name) ==
    [id |-> id,
     complaint_number |-> "COMP-2024-001",
     received_date |-> Datetime(2024, 1, 15, 10, 0, 0),
     complainant_name |-> complainant_name,
     licensee_name |-> licensee_name,
     licensee_license_number |-> "ND-12345",
     complaint_description |-> "Sample complaint description",
     status |-> "received",
     assigned_investigator |-> NONE,
     security_classification |-> CONFIDENTIAL]

ReportComplaints ==
    {ReportComplaint(id, name, complainant) :
        id \in {NONE, "comp_1"}, name \in {"", "Dr. John Doe"},
        complainant \in {NONE, "Jane Roe"}}

ReportDocument(document_type, filename, classification, encrypted) ==
    [document_type |-> document_type,
     filename |-> filename,
     uploaded_at |-> Datetime(2024, 2, 1, 9, 30, 0),
     security_classification |-> classification,
     encrypted |-> encrypted]

\* Document lists that make each rule set pass, warn and fail.
ReportDocumentLists ==
    { <<>>,
      <<ReportDocument("evidence", "notes.txt", CONFIDENTIAL, FALSE)>>,
      <<ReportDocument("complaint", "intake.pdf", PHI, FALSE)>>,
      <<ReportDocument("response", "reply.pdf", CFR2, TRUE)>>,
      <<ReportDocument("response", "reply.pdf", CFR2, FALSE)>>,
      <<ReportDocument("complaint", "intake.pdf", PHI, FALSE),
        ReportDocument("response", "reply.pdf", CFR2, FALSE)>> }

\* n findings, numbered upwards or downwards.
Ascending(n) == PyList([i \in 1..n |-> PyStr("finding " \o ToString(i))])

Descending(n) == PyList([i \in 1..n |-> PyStr("finding " \o ToString(n + 1 - i))])

FindingLists == {Ascending(n) : n \in 0..MaxFindings} \cup {Descending(n) : n \in 0..MaxFindings}

RiskAssessments ==
    { PyOrdered(<<>>),
      PyOrdered(<<Pair("level", PyStr("high")),
                  Pair("factors", PyList(<<PyStr("Prior complaints")>>)),
                  Pair("urgency", PyStr("low"))>>) }

ReportAnalysis(complaint_id, key_findings, risk_assessment) ==
    [complaint_id |-> complaint_id,
     key_findings |-> key_findings,
     recommended_strategies |-> PyList(<<PyStr("Sample strategy")>>),
     risk_assessment |-> risk_assessment,
     compliance_notes |-> PyList(<<PyStr("Sample note")>>),
     confidence_score |-> PyFloat(8, 1),
     model_version |-> OPENAI_MODEL]

\* get_current_user's user and another one.
Users == {"user123", "user456"}

(***************************************************************************)
(* Specification of the report generator: the caller holds a complaint,    *)
(* its documents and an analysis, and calls generate_panel_report and      *)
(* export_report_to_text on the one ReportGenerator, MaxCalls times in     *)
(* all.  The case varies in the analysis, or in what the compliance        *)
(* evaluators look at.                                                     *)
(***************************************************************************)
ReportInit ==
    /\ \/ /\ complaint = ReportComplaint("comp_1", "Dr. John Doe", NONE)
          /\ documents = <<>>
          /\ settings = [ND_RECORD_RETENTION_DAYS |-> DefaultRetentionDays]
          /\ \E key_findings \in FindingLists, risk \in RiskAssessments :
                ai_analysis = ReportAnalysis("comp_1", key_findings, risk)
       \/ /\ complaint \in ReportComplaints
          /\ documents \in ReportDocumentLists
          /\ settings \in [ND_RECORD_RETENTION_DAYS :
                              {MinRetentionDays - 1, DefaultRetentionDays}]
          /\ ai_analysis =
                ReportAnalysis("comp_1", PyList(<<PyStr("Sample finding")>>),
                               PyOrdered(<<Pair("level", PyStr("medium"))>>))
    /\ result = NoCall
    /\ response_text = <<>>
    /\ parsed = NoCall
    /\ clock = 0
    /\ reports = <<>>
    /\ exports = <<>>
    /\ tasks = <<>>
    /\ access = NoCall
    /\ audit_log = <<>>
    /\ analyzer = NONE
    /\ http = NoCall
    /\ audit_call = NoCall
    /\ cipher = NONE
    /\ crypto = NoCall

GeneratePanelReport ==
    /\ Len(reports) + Len(exports) < MaxCalls
    /\ \E generated_by \in Users :
          reports' = Append(reports,
                            [generated_by |-> generated_by,
                             value |-> generate_panel_report(complaint, documents,
                                                             ai_analysis, generated_by,
                                                             utcnow(clock))])
    /\ clock' = clock + 1
    /\ UNCHANGED <<securityVars, complaint, documents, settings, result, response_text, parsed,
                   ai_analysis, exports, tasks, apiVars>>

\* export_report_to_text on a report returned earlier.
ExportReportToText_extends_report ==
    /\ Len(reports) + Len(exports) < MaxCalls
    /\ \E i \in 1..Len(reports) :
          /\ exports' = Append(exports,
                               [report |-> i,
                                text |-> export_report_to_text(reports[i].value)])
          /\ reports' = [reports EXCEPT ![i].value.compliance_considerations =
                                           Append(@, "END OF REPORT")]
    /\ UNCHANGED <<securityVars, complaint, documents, settings, result, response_text, parsed,
                   ai_analysis, clock, tasks, apiVars>>

ExportReportToText ==
    /\ Len(reports) + Len(exports) < MaxCalls
    /\ \E i \in 1..Len(reports) :
          exports' = Append(exports,
                            [report |-> i,
                             text |-> export_report_to_text(reports[i].value)])
    /\ UNCHANGED <<securityVars, complaint, documents, settings, result, response_text, parsed,
                   ai_analysis, clock, reports, tasks, apiVars>>

ReportNext ==
    \/ GeneratePanelReport
    \/ ExportReportToText

ReportSpec == ReportInit /\ [][ReportNext]_vars

(***************************************************************************)
(* Specification of concurrent invocations of the compliance evaluators:   *)
(* each of MaxTasks callers holds a complaint and its documents, calls the *)
(* three evaluators in an order of its own and then combines the verdicts  *)
(* as comprehensive_compliance_check does; the steps of the callers        *)
(* interleave.  The settings are the one thing the callers share.          *)
(***************************************************************************)
MaxTasks == 2

TaskComplaint(licensee_name) ==
    [f \in RequiredFieldNames |-> IF f = "licensee_name" THEN licensee_name ELSE "COMP-001"]

\* The complaint and the documents one caller holds.
TaskInputs ==
    { [complaint |-> TaskComplaint("Dr. John Doe"),
       documents |-> <<[security_classification |-> PHI, encrypted |-> FALSE]>>],
      [complaint |-> TaskComplaint(""),
       documents |-> <<>>],
      [complaint |-> TaskComplaint("Dr. John Doe"),
       documents |-> <<[security_classification |-> CFR2, encrypted |-> TRUE]>>] }

ConcurrentInit ==
    /\ \E held \in [1..MaxTasks -> TaskInputs] :
          tasks = [t \in 1..MaxTasks |->
                      [complaint |-> held[t].complaint,
                       documents |-> held[t].documents,
                       verdicts |-> <<>>,
                       aggregate |-> NoCall]]
    /\ settings \in [ND_RECORD_RETENTION_DAYS : {MinRetentionDays - 1, DefaultRetentionDays}]
    /\ complaint = [f \in RequiredFieldNames |-> "COMP-001"]
    /\ documents = <<>>
    /\ result = NoCall
    /\ response_text = <<>>
    /\ parsed = NoCall
    /\ ai_analysis = NoAnalysis
    /\ clock = 0
    /\ reports = <<>>
    /\ exports = <<>>
    /\ access = NoCall
    /\ audit_log = <<>>
    /\ analyzer = NONE
    /\ http = NoCall
    /\ audit_call = NoCall
    /\ cipher = NONE
    /\ crypto = NoCall

\* What no step of a caller touches.
TaskUnchanged ==
    UNCHANGED <<securityVars, complaint, documents, settings, result, response_text, parsed,
                reportVars, apiVars>>

TaskHipaa(t) ==
    /\ "hipaa" \notin DOMAIN tasks[t].verdicts
    /\ tasks' = [tasks EXCEPT ![t].verdicts =
                    ("hipaa" :> check_hipaa_compliance(tasks[t].complaint,
                                                       tasks[t].documents)) @@ @]
    /\ TaskUnchanged

TaskCfr2(t) ==
    /\ "cfr2" \notin DOMAIN tasks[t].verdicts
    /\ tasks' = [tasks EXCEPT ![t].verdicts =
                    ("cfr2" :> check_cfr2_compliance(tasks[t].complaint,
                                                     tasks[t].documents)) @@ @]
    /\ TaskUnchanged

TaskNdStateLaw(t) ==
    /\ "nd_state_law" \notin DOMAIN tasks[t].verdicts
    /\ tasks' = [tasks EXCEPT ![t].verdicts =
                    ("nd_state_law" :> check_nd_state_law_compliance(tasks[t].complaint))
                        @@ @]
    /\ TaskUnchanged

\* The caller combines its three verdicts.
TaskAggregate(t) ==
    /\ DOMAIN tasks[t].verdicts = {"hipaa", "cfr2", "nd_state_law"}
    /\ tasks[t].aggregate = NoCall
    /\ tasks' = [tasks EXCEPT ![t].aggregate =
                    [op |-> "comprehensive_compliance_check",
                     value |-> Aggregate(tasks[t].verdicts["hipaa"],
                                         tasks[t].verdicts["cfr2"],
                                         tasks[t].verdicts["nd_state_law"])]]
    /\ TaskUnchanged

ConcurrentNext ==
    \E t \in 1..MaxTasks :
        \/ TaskHipaa(t)
        \/ TaskCfr2(t)
        \/ TaskNdStateLaw(t)
        \/ TaskAggregate(t)

ConcurrentSpec == ConcurrentInit /\ [][ConcurrentNext]_vars

(***************************************************************************)
(* Role-based access control (security/access_control.py).  Roles and      *)
(* permissions are the values of the str enums.                            *)
(***************************************************************************)
ADMIN == "admin"
INVESTIGATOR == "investigator"
PANEL_MEMBER == "panel_member"
REVIEWER == "reviewer"
AUDITOR == "auditor"
READ_ONLY == "read_only"

Role == {ADMIN, INVESTIGATOR, PANEL_MEMBER, REVIEWER, AUDITOR, READ_ONLY}

CREATE_COMPLAINT == "create_complaint"
VIEW_COMPLAINT == "view_complaint"
EDIT_COMPLAINT == "edit_complaint"
DELETE_COMPLAINT == "delete_complaint"
UPLOAD_DOCUMENT == "upload_document"
VIEW_DOCUMENT == "view_document"
DOWNLOAD_DOCUMENT == "download_document"
DELETE_DOCUMENT == "delete_document"
RUN_ANALYSIS == "run_analysis"
VIEW_ANALYSIS == "view_analysis"
GENERATE_REPORT == "generate_report"
VIEW_REPORT == "view_report"
EXPORT_REPORT == "export_report"
VIEW_AUDIT_LOG == "view_audit_log"
EXPORT_AUDIT_LOG == "export_audit_log"
MANAGE_USERS == "manage_users"
MANAGE_SETTINGS == "manage_settings"

Permission ==
    {CREATE_COMPLAINT, VIEW_COMPLAINT, EDIT_COMPLAINT, DELETE_COMPLAINT,
     UPLOAD_DOCUMENT, VIEW_DOCUMENT, DOWNLOAD_DOCUMENT, DELETE_DOCUMENT,
     RUN_ANALYSIS, VIEW_ANALYSIS,
     GENERATE_REPORT, VIEW_REPORT, EXPORT_REPORT,
     VIEW_AUDIT_LOG, EXPORT_AUDIT_LOG,
     MANAGE_USERS, MANAGE_SETTINGS}

ROLE_PERMISSIONS ==
    (ADMIN :> Permission)
    @@ (INVESTIGATOR :>
            {CREATE_COMPLAINT, VIEW_COMPLAINT, EDIT_COMPLAINT,
             UPLOAD_DOCUMENT, VIEW_DOCUMENT, DOWNLOAD_DOCUMENT,
             RUN_ANALYSIS, VIEW_ANALYSIS,
             GENERATE_REPORT, VIEW_REPORT, EXPORT_REPORT})
    @@ (PANEL_MEMBER :>
            {VIEW_COMPLAINT, VIEW_DOCUMENT, VIEW_ANALYSIS, VIEW_REPORT, EXPORT_REPORT})
    @@ (REVIEWER :> {VIEW_COMPLAINT, VIEW_DOCUMENT, VIEW_ANALYSIS, VIEW_REPORT})
    @@ (AUDITOR :> {VIEW_AUDIT_LOG, EXPORT_AUDIT_LOG, VIEW_COMPLAINT})
    @@ (READ_ONLY :> {VIEW_COMPLAINT, VIEW_DOCUMENT, VIEW_ANALYSIS, VIEW_REPORT})

\* (the investigator passed like the administrator)
has_permission_investigator_all(role, permission) ==
    \/ role = INVESTIGATOR
    \/ role \in DOMAIN ROLE_PERMISSIONS /\ permission \in ROLE_PERMISSIONS[role]

\* ROLE_PERMISSIONS.get(role, set()), then membership.
has_permission(role, permission) ==
    LET role_perms == IF role \in DOMAIN ROLE_PERMISSIONS
                      THEN ROLE_PERMISSIONS[role] ELSE {}
    IN  permission \in role_perms

\* (the reviewer counted among the roles with special access)
can_access_classification_reviewer_special(role, classification) ==
    IF classification \in {PHI, CFR2, RESTRICTED}
    THEN role \in {ADMIN, INVESTIGATOR, PANEL_MEMBER, REVIEWER}
    ELSE TRUE

can_access_classification(role, classification) ==
    IF classification \in {PHI, CFR2}
    THEN role \in {ADMIN, INVESTIGATOR, PANEL_MEMBER}
    ELSE IF classification = RESTRICTED
    THEN role \in {ADMIN, INVESTIGATOR, PANEL_MEMBER, REVIEWER}
    ELSE TRUE

\* list(SecurityClassification): the members in definition order.
all_classifications == <<PUBLIC, CONFIDENTIAL, RESTRICTED, PHI, CFR2>>

get_accessible_classifications(role) ==
    SelectSeq(all_classifications, LAMBDA cls : can_access_classification(role, cls))

(***************************************************************************)
(* Specification of the access control service: its three static methods   *)
(* are called with any role, permission and classification.                *)
(***************************************************************************)
AccessInit ==
    /\ complaint = [f \in RequiredFieldNames |-> "COMP-001"]
    /\ documents = <<>>
    /\ settings = [ND_RECORD_RETENTION_DAYS |-> DefaultRetentionDays]
    /\ result = NoCall
    /\ response_text = <<>>
    /\ parsed = NoCall
    /\ ai_analysis = NoAnalysis
    /\ clock = 0
    /\ reports = <<>>
    /\ exports = <<>>
    /\ tasks = <<>>
    /\ access = NoCall
    /\ audit_log = <<>>
    /\ analyzer = NONE
    /\ http = NoCall
    /\ audit_call = NoCall
    /\ cipher = NONE
    /\ crypto = NoCall

AccessUnchanged ==
    UNCHANGED <<securityVars, complaint, documents, settings, result, response_text, parsed,
                reportVars, tasks, audit_log, analyzer, http>>

HasPermission ==
    /\ \E role \in Role, permission \in Permission :
          access' = [op |-> "has_permission", role |-> role, permission |-> permission,
                     value |-> has_permission(role, permission)]
    /\ AccessUnchanged

CanAccessClassification ==
    /\ \E role \in Role, classification \in SecurityClassification :
          access' = [op |-> "can_access_classification", role |-> role,
                     classification |-> classification,
                     value |-> can_access_classification(role, classification)]
    /\ AccessUnchanged

GetAccessibleClassifications ==
    /\ \E role \in Role :
          access' = [op |-> "get_accessible_classifications", role |-> role,
                     value |-> get_accessible_classifications(role)]
    /\ AccessUnchanged

AccessNext ==
    \/ HasPermission
    \/ CanAccessClassification
    \/ GetAccessibleClassifications

AccessSpec == AccessInit /\ [][AccessNext]_vars

(***************************************************************************)
(* src/src/security/audit.py and src/src/api/main.py.  audit_log is the    *)
(* sequence of the AuditLog entries log_action has built, in the order of  *)
(* the calls; http is the response to the last request.                    *)
(***************************************************************************)
\* AuditLogger.log_action with ip_address and user_agent left at None.
log_action(user_id, action, resource_type, resource_id, details, now) ==
    [timestamp |-> now,
     user_id |-> user_id,
     action |-> action,
     resource_type |-> resource_type,
     resource_id |-> resource_id,
     ip_address |-> NONE,
     user_agent |-> NONE,
     details |-> IF details = PyNone \/ details = PyOrdered(<<>>)
                 THEN PyOrdered(<<>>) ELSE details,
     success |-> TRUE]

\* AuditLogger.log_data_access
log_data_access(user_id, resource_type, resource_id, classification, now) ==
    log_action(user_id, "data_access", resource_type, resource_id,
               PyOrdered(<<Pair("classification", PyStr(classification))>>), now)

\* What get_current_user returns (a placeholder in the source), and the
\* users a handler may be handed in its place: one of every role.
get_current_user ==
    [user_id |-> "user123", role |-> INVESTIGATOR, email |-> "investigator@state.gov"]

CurrentUsers == {[get_current_user EXCEPT !.role = r] : r \in Role}

\* datetime.timestamp() of the instants utcnow yields, the local time zone
\* being UTC, as str() prints it.
timestamp(dt) == ToString(1709971500 + dt.second) \o ".0"

PyDatetime(dt) == PyValue("datetime", isoformat(dt), 0, 0, <<>>, <<>>)

PyOptional(v) == IF v = NONE THEN PyNone ELSE PyStr(v)

\* Complaint.model_dump(): the fields in declared order.
model_dump(c) ==
    PyOrdered(<<Pair("id", PyOptional(c.id)),
                Pair("complaint_number", PyStr(c.complaint_number)),
                Pair("received_date", PyDatetime(c.received_date)),
                Pair("complainant_name", PyOptional(c.complainant_name)),
                Pair("licensee_name", PyStr(c.licensee_name)),
                Pair("licensee_license_number", PyStr(c.licensee_license_number)),
                Pair("complaint_description", PyStr(c.complaint_description)),
                Pair("status", PyStr(c.status)),
                Pair("assigned_investigator", PyOptional(c.assigned_investigator)),
                Pair("security_classification", PyStr(c.security_classification)),
                Pair("created_at", PyDatetime(c.created_at)),
                Pair("updated_at", PyDatetime(c.updated_at))>>)

HTTPException(status_code, detail) ==
    [status_code |-> status_code, detail |-> detail, body |-> NONE]

\* A returned value: FastAPI answers 200 with it.
Returned(body) == [status_code |-> 200, detail |-> "", body |-> body]

Response(endpoint, current_user, outcome) ==
    [op |-> endpoint, current_user |-> current_user] @@ outcome

\* The complaint the analyze and report handlers build in place of a stored one.
MockComplaint(complaint_id, now) ==
    [ReportComplaint(complaint_id, "Dr. John Doe", NONE) EXCEPT !.received_date = now]

\* The analysis the report handler builds in place of a stored one.
MockAnalysis(complaint_id) ==
    ReportAnalysis(complaint_id, PyList(<<PyStr("Sample finding")>>),
                   PyOrdered(<<Pair("level", PyStr("medium"))>>))

\* ComplaintAnalyzer.__init__: the key is required; building the client is
\* left to the library, which may raise.  Each object built is another
\* object: it is named after the instant at which it is built.
ComplaintAnalyzer(client_built) ==
    IF \/ ~Truthy(settings.OPENAI_API_KEY)
       \/ settings.OPENAI_API_KEY = "your-openai-api-key-here"
       \/ ~client_built
    THEN [raised |-> TRUE, instance |-> NONE]
    ELSE [raised |-> FALSE, instance |-> "ComplaintAnalyzer at " \o ToString(clock)]

\* (an analyzer built at every call)
get_analyzer_builds_anew(client_built) ==
    LET made == ComplaintAnalyzer(client_built)
    IN  IF made.raised THEN analyzer ELSE made.instance

\* get_analyzer: the value of _analyzer after the call, which is returned.
get_analyzer(client_built) ==
    IF analyzer = NONE
    THEN LET made == ComplaintAnalyzer(client_built)
         IN  IF made.raised THEN NONE ELSE made.instance
    ELSE analyzer

(***************************************************************************)
(* The requests.                                                           *)
(***************************************************************************)
MaxRequests == 2

RequestComplaints ==
    { ReportComplaint(NONE, "Dr. John Doe", NONE)
        @@ [created_at |-> Datetime(2024, 3, 9, 8, 0, 0),
            updated_at |-> Datetime(2024, 3, 9, 8, 0, 0)] }

ComplaintIds == {"comp_1"}
ReportIds == {"rep_1"}
Formats == {"text", "json"}

\* UploadFile: its filename and content_type may be None.
Files ==
    { [filename |-> NONE, content_type |-> NONE],
      [filename |-> "reply.pdf", content_type |-> "application/pdf"] }

\* What llm.invoke does: it raises, or returns a text.
LlmOutcomes ==
    { [raised |-> TRUE, content |-> <<>>],
      [raised |-> FALSE, content |-> <<" ", "o", "k", " ">>],
      [raised |-> FALSE,
       content |-> <<"{", "\"", "c", "o", "n", "f", "i", "d", "e", "n", "c", "e", "_",
                     "s", "c", "o", "r", "e", "\"", ":", "0", ".", "9", "}">>] }

ApiInit ==
    /\ complaint = [f \in RequiredFieldNames |-> "COMP-001"]
    /\ documents = <<>>
    /\ \E key \in {NONE, "your-openai-api-key-here", "sk-test"} :
          settings = [ND_RECORD_RETENTION_DAYS |-> DefaultRetentionDays,
                      OPENAI_API_KEY |-> key]
    /\ result = NoCall
    /\ response_text = <<>>
    /\ parsed = NoCall
    /\ ai_analysis = NoAnalysis
    /\ clock = 0
    /\ reports = <<>>
    /\ exports = <<>>
    /\ tasks = <<>>
    /\ access = NoCall
    /\ audit_log = <<>>
    /\ analyzer = NONE
    /\ http = NoCall
    /\ audit_call = NoCall
    /\ cipher = NONE
    /\ crypto = NoCall

ApiUnchanged ==
    UNCHANGED <<securityVars, complaint, documents, settings, result, response_text, parsed,
                ai_analysis, reports, exports, tasks, access>>

\* raise HTTPException(status_code=403, ...) as the handler's first statement.
Forbidden(endpoint, current_user) ==
    /\ http' = Response(endpoint, current_user,
                        HTTPException(403, "Insufficient permissions"))
    /\ UNCHANGED <<audit_log, analyzer, clock>>

\* POST /api/complaints
CreateComplaint ==
    /\ \E current_user \in CurrentUsers, c \in RequestComplaints :
          IF ~has_permission(current_user.role, CREATE_COMPLAINT)
          THEN Forbidden("create_complaint", current_user)
          ELSE /\ Len(audit_log) < MaxRequests
               /\ audit_log' = Append(audit_log,
                      log_action(current_user.user_id, "create_complaint", "complaint",
                                 c.complaint_number,
                                 PyOrdered(<<Pair("complaint_data", model_dump(c))>>),
                                 utcnow(clock)))
               /\ http' = Response("create_complaint", current_user,
                      Returned([c EXCEPT !.id = "comp_" \o timestamp(utcnow(clock + 1)),
                                         !.created_at = utcnow(clock + 2),
                                         !.updated_at = utcnow(clock + 3)]))
               /\ clock' = clock + 4
               /\ UNCHANGED analyzer
    /\ ApiUnchanged

\* (the complaint looked up, and the event written once it is found)
GetComplaint_audit_when_found ==
    /\ \E current_user \in CurrentUsers, complaint_id \in ComplaintIds :
          IF ~has_permission(current_user.role, VIEW_COMPLAINT)
          THEN Forbidden("get_complaint", current_user)
          ELSE /\ Len(audit_log) < MaxRequests
               /\ http' = Response("get_complaint", current_user,
                                   HTTPException(404, "Complaint not found"))
               /\ UNCHANGED <<audit_log, analyzer, clock>>
    /\ ApiUnchanged

\* GET /api/complaints/{complaint_id}
GetComplaint ==
    /\ \E current_user \in CurrentUsers, complaint_id \in ComplaintIds :
          IF ~has_permission(current_user.role, VIEW_COMPLAINT)
          THEN Forbidden("get_complaint", current_user)
          ELSE /\ Len(audit_log) < MaxRequests
               /\ audit_log' = Append(audit_log,
                      log_data_access(current_user.user_id, "complaint", complaint_id,
                                      "confidential", utcnow(clock)))
               /\ http' = Response("get_complaint", current_user,
                                   HTTPException(404, "Complaint not found"))
               /\ clock' = clock + 1
               /\ UNCHANGED analyzer
    /\ ApiUnchanged

\* POST /api/complaints/{complaint_id}/analyze
AnalyzeEndpoint ==
    /\ \E current_user \in CurrentUsers, complaint_id \in ComplaintIds,
          client_built \in BOOLEAN, llm \in LlmOutcomes :
          IF ~has_permission(current_user.role, RUN_ANALYSIS)
          THEN Forbidden("analyze_complaint", current_user)
          ELSE \E analyzer_instance \in {get_analyzer(client_built)},
                  analysis \in {analyze_complaint(
                                   MockComplaint(complaint_id, utcnow(clock + 1)),
                                   llm.content).analysis} :
                   /\ Len(audit_log) < MaxRequests
                   /\ audit_log' = Append(audit_log,
                          log_action(current_user.user_id, "run_analysis", "complaint",
                                     complaint_id, PyNone, utcnow(clock)))
                   /\ analyzer' = analyzer_instance
                   /\ clock' = clock + 2
                   /\ http' = Response("analyze_complaint", current_user,
                          IF analyzer_instance = NONE
                          THEN HTTPException(503,
                                  "AI analysis service unavailable. Please configure OPENAI_API_KEY in environment variables.")
                          ELSE IF llm.raised
                          THEN HTTPException(500, "Analysis failed: <llm.invoke error>")
                          ELSE IF analysis.raised
                          THEN HTTPException(500, "Analysis failed: <ValidationError>")
                          ELSE Returned(analysis.value))
    /\ ApiUnchanged

\* POST /api/complaints/{complaint_id}/reports
GenerateReport ==
    /\ \E current_user \in CurrentUsers, complaint_id \in ComplaintIds :
          IF ~has_permission(current_user.role, GENERATE_REPORT)
          THEN Forbidden("generate_report", current_user)
          ELSE /\ Len(audit_log) < MaxRequests
               /\ audit_log' = Append(audit_log,
                      log_action(current_user.user_id, "generate_report", "complaint",
                                 complaint_id, PyNone, utcnow(clock)))
               /\ http' = Response("generate_report", current_user,
                      Returned(generate_panel_report(
                                  MockComplaint(complaint_id, utcnow(clock + 1)), <<>>,
                                  MockAnalysis(complaint_id), current_user.user_id,
                                  utcnow(clock + 2))))
               /\ clock' = clock + 3
               /\ UNCHANGED analyzer
    /\ ApiUnchanged

\* (the audit event written before the permission is looked at)
ExportReport_audit_first ==
    /\ \E current_user \in CurrentUsers, report_id \in ReportIds, format \in Formats :
          /\ Len(audit_log) < MaxRequests
          /\ audit_log' = Append(audit_log,
                 log_action(current_user.user_id, "export_report", "report", report_id,
                            PyOrdered(<<Pair("format", PyStr(format))>>), utcnow(clock)))
          /\ http' = Response("export_report", current_user,
                 IF ~has_permission(current_user.role, EXPORT_REPORT)
                 THEN HTTPException(403, "Insufficient permissions")
                 ELSE HTTPException(404, "Report not found"))
          /\ clock' = clock + 1
          /\ UNCHANGED analyzer
    /\ ApiUnchanged

\* GET /api/complaints/{complaint_id}/reports/{report_id}/export
ExportReport ==
    /\ \E current_user \in CurrentUsers, report_id \in ReportIds, format \in Formats :
          IF ~has_permission(current_user.role, EXPORT_REPORT)
          THEN Forbidden("export_report", current_user)
          ELSE /\ Len(audit_log) < MaxRequests
               /\ audit_log' = Append(audit_log,
                      log_action(current_user.user_id, "export_report", "report",
                                 report_id,
                                 PyOrdered(<<Pair("format", PyStr(format))>>),
                                 utcnow(clock)))
               /\ http' = Response("export_report", current_user,
                                   HTTPException(404, "Report not found"))
               /\ clock' = clock + 1
               /\ UNCHANGED analyzer
    /\ ApiUnchanged

\* POST /api/complaints/{complaint_id}/documents, document_type at its default
UploadDocument ==
    /\ \E current_user \in CurrentUsers, complaint_id \in ComplaintIds, file \in Files :
          IF ~has_permission(current_user.role, UPLOAD_DOCUMENT)
          THEN Forbidden("upload_document", current_user)
          ELSE /\ Len(audit_log) < MaxRequests
               /\ audit_log' = Append(audit_log,
                      log_action(current_user.user_id, "upload_document", "document",
                                 OrDefault(file.filename, "unknown"),
                                 PyOrdered(<<Pair("complaint_id", PyStr(complaint_id)),
                                             Pair("document_type", PyStr("other"))>>),
                                 utcnow(clock)))
               /\ http' = Response("upload_document", current_user,
                      Returned([id |-> NONE,
                                complaint_id |-> complaint_id,
                                document_type |-> "other",
                                filename |-> OrDefault(file.filename, "unknown"),
                                file_path |-> "/uploads/" \o
                                    (IF file.filename = NONE THEN "None" ELSE file.filename),
                                file_size |-> 0,
                                mime_type |-> OrDefault(file.content_type,
                                                        "application/octet-stream"),
                                uploaded_by |-> current_user.user_id,
                                uploaded_at |-> utcnow(clock + 1),
                                security_classification |-> CONFIDENTIAL,
                                encrypted |-> TRUE,
                                checksum |-> NONE]))
               /\ clock' = clock + 2
               /\ UNCHANGED analyzer
    /\ ApiUnchanged

ApiNext ==
    \/ CreateComplaint
    \/ GetComplaint
    \/ AnalyzeEndpoint
    \/ GenerateReport
    \/ ExportReport
    \/ UploadDocument

ApiSpec == ApiInit /\ [][ApiNext]_vars

(***************************************************************************)
(* Specification of the audit logger: its four logging methods are called  *)
(* MaxAuditCalls times in all, by any user on any resource.  audit_log is  *)
(* the sequence of the entries built so far; the logger itself keeps none  *)
(* (the write to a database is commented out in the source).               *)
(***************************************************************************)
MaxAuditCalls == 2

\* AuditLogger.log_phi_access
log_phi_access(user_id, resource_type, resource_id, now) ==
    log_action(user_id, "phi_access", resource_type, resource_id,
               PyOrdered(<<Pair("phi_accessed", PyBool(TRUE))>>), now)

\* AuditLogger.log_cfr2_access
log_cfr2_access(user_id, resource_type, resource_id, now) ==
    log_action(user_id, "cfr2_access", resource_type, resource_id,
               PyOrdered(<<Pair("cfr2_accessed", PyBool(TRUE))>>), now)

\* The resources a call names: their type and their identifier.
AuditResources ==
    { [resource_type |-> "complaint", resource_id |-> "comp_1"],
      [resource_type |-> "document", resource_id |-> "doc_1"] }

AuditDetails == {PyNone, PyOrdered(<<Pair("format", PyStr("text"))>>)}

AuditInit ==
    /\ complaint = [f \in RequiredFieldNames |-> "COMP-001"]
    /\ documents = <<>>
    /\ settings = [ND_RECORD_RETENTION_DAYS |-> DefaultRetentionDays]
    /\ result = NoCall
    /\ response_text = <<>>
    /\ parsed = NoCall
    /\ ai_analysis = NoAnalysis
    /\ clock = 0
    /\ reports = <<>>
    /\ exports = <<>>
    /\ tasks = <<>>
    /\ access = NoCall
    /\ audit_log = <<>>
    /\ analyzer = NONE
    /\ http = NoCall
    /\ audit_call = NoCall
    /\ cipher = NONE
    /\ crypto = NoCall

AuditUnchanged ==
    UNCHANGED <<complaint, documents, settings, result, response_text, parsed,
                ai_analysis, reports, exports, tasks, access, analyzer, http,
                cipher, crypto>>

\* The call as the caller sees it: log_action returns the entry, the other
\* three methods return None.
AuditCall(op, user_id, action, resource, returned) ==
    [op |-> op, user_id |-> user_id, action |-> action,
     resource_type |-> resource.resource_type, resource_id |-> resource.resource_id,
     returned |-> returned]

LogAction ==
    /\ Len(audit_log) < MaxAuditCalls
    /\ \E user_id \in Users, resource \in AuditResources, details \in AuditDetails :
          \E audit_entry \in {log_action(user_id, "view_complaint", resource.resource_type,
                                         resource.resource_id, details, utcnow(clock))} :
             /\ audit_log' = Append(audit_log, audit_entry)
             /\ audit_call' = AuditCall("log_action", user_id, "view_complaint", resource,
                                        <<audit_entry>>)
    /\ clock' = clock + 1
    /\ AuditUnchanged

\* (the entry of the earlier call is replaced by the new one)
LogDataAccess_replaces_last ==
    /\ Len(audit_log) < MaxAuditCalls
    /\ \E user_id \in Users, resource \in AuditResources,
          classification \in {CONFIDENTIAL, PHI} :
          /\ audit_log' = <<log_data_access(user_id, resource.resource_type,
                                            resource.resource_id, classification,
                                            utcnow(clock))>>
          /\ audit_call' = AuditCall("log_data_access", user_id, "data_access", resource,
                                     <<>>)
    /\ clock' = clock + 1
    /\ AuditUnchanged

LogDataAccess ==
    /\ Len(audit_log) < MaxAuditCalls
    /\ \E user_id \in Users, resource \in AuditResources,
          classification \in {CONFIDENTIAL, PHI} :
          /\ audit_log' = Append(audit_log,
                 log_data_access(user_id, resource.resource_type, resource.resource_id,
                                 classification, utcnow(clock)))
          /\ audit_call' = AuditCall("log_data_access", user_id, "data_access", resource,
                                     <<>>)
    /\ clock' = clock + 1
    /\ AuditUnchanged

LogPhiAccess ==
    /\ Len(audit_log) < MaxAuditCalls
    /\ \E user_id \in Users, resource \in AuditResources :
          /\ audit_log' = Append(audit_log,
                 log_phi_access(user_id, resource.resource_type, resource.resource_id,
                                utcnow(clock)))
          /\ audit_call' = AuditCall("log_phi_access", user_id, "phi_access", resource, <<>>)
    /\ clock' = clock + 1
    /\ AuditUnchanged

LogCfr2Access ==
    /\ Len(audit_log) < MaxAuditCalls
    /\ \E user_id \in Users, resource \in AuditResources :
          /\ audit_log' = Append(audit_log,
                 log_cfr2_access(user_id, resource.resource_type, resource.resource_id,
                                 utcnow(clock)))
          /\ audit_call' = AuditCall("log_cfr2_access", user_id, "cfr2_access", resource,
                                     <<>>)
    /\ clock' = clock + 1
    /\ AuditUnchanged

AuditNext ==
    \/ LogAction
    \/ LogDataAccess
    \/ LogPhiAccess
    \/ LogCfr2Access

AuditSpec == AuditInit /\ [][AuditNext]_vars

(***************************************************************************)
(* src/src/security/encryption.py: EncryptionService.encrypt and decrypt.  *)
(* Here a str is the sequence of its code points and a bytes object the    *)
(* sequence of its bytes.  A call yields [raised, value].                  *)
(***************************************************************************)
Raised == [raised |-> TRUE, value |-> <<>>]

Value(v) == [raised |-> FALSE, value |-> v]

\* The UTF-8 bytes of one code point.
EncodeCodePoint(cp) ==
    IF cp < 128 THEN <<cp>>
    ELSE IF cp < 2048 THEN <<192 + cp \div 64, 128 + (cp % 64)>>
    ELSE IF cp < 65536
    THEN <<224 + cp \div 4096, 128 + ((cp \div 64) % 64), 128 + (cp % 64)>>
    ELSE <<240 + cp \div 262144, 128 + ((cp \div 4096) % 64),
           128 + ((cp \div 64) % 64), 128 + (cp % 64)>>

IsSurrogate(cp) == cp >= 55296 /\ cp <= 57343

\* str.encode(): UTF-8, strict; UnicodeEncodeError on a surrogate.
str_encode(s) ==
    IF \E i \in 1..Len(s) : IsSurrogate(s[i]) THEN Raised
    ELSE Value(Concat([i \in 1..Len(s) |-> EncodeCodePoint(s[i])]))

\* bytes.decode(): UTF-8, strict; UnicodeDecodeError on an ill-formed sequence.
RECURSIVE bytes_decode(_)
bytes_decode(b) ==
    IF b = <<>> THEN Value(<<>>)
    ELSE LET lead == b[1]
             n == IF lead < 128 THEN 1
                  ELSE IF lead >= 194 /\ lead < 224 THEN 2
                  ELSE IF lead >= 224 /\ lead < 240 THEN 3
                  ELSE IF lead >= 240 /\ lead < 245 THEN 4
                  ELSE 0
             wellformed == /\ n > 0
                           /\ Len(b) >= n
                           /\ \A k \in 2..n : b[k] >= 128 /\ b[k] < 192
             cp == IF n = 1 THEN lead
                   ELSE IF n = 2 THEN (lead - 192) * 64 + (b[2] - 128)
                   ELSE IF n = 3
                   THEN (lead - 224) * 4096 + (b[2] - 128) * 64 + (b[3] - 128)
                   ELSE (lead - 240) * 262144 + (b[2] - 128) * 4096
                        + (b[3] - 128) * 64 + (b[4] - 128)
         IN  IF ~wellformed THEN Raised
             ELSE IF n = 3 /\ (cp < 2048 \/ IsSurrogate(cp)) THEN Raised
             ELSE IF n = 4 /\ (cp < 65536 \/ cp > 1114111) THEN Raised
             ELSE CHOOSE r \in {IF rest.raised THEN Raised ELSE Value(<<cp>> \o rest.value) :
                                  rest \in {bytes_decode(SubSeq(b, n + 1, Len(b)))}} : TRUE

\* The i-th character of the Base64 alphabet, standard or URL-safe.
B64Char(i, urlsafe) ==
    IF i < 26 THEN 65 + i
    ELSE IF i < 52 THEN 97 + (i - 26)
    ELSE IF i < 62 THEN 48 + (i - 52)
    ELSE IF i = 62 THEN (IF urlsafe THEN 45 ELSE 43)
    ELSE (IF urlsafe THEN 95 ELSE 47)

B64Pad == 61

InAlphabet(c, urlsafe) == \E i \in 0..63 : B64Char(i, urlsafe) = c

B64Value(c, urlsafe) == CHOOSE i \in 0..63 : B64Char(i, urlsafe) = c

RECURSIVE B64Encode(_, _)
B64Encode(b, urlsafe) ==
    IF b = <<>> THEN <<>>
    ELSE LET n == Len(b)
             b2 == IF n >= 2 THEN b[2] ELSE 0
             b3 == IF n >= 3 THEN b[3] ELSE 0
         IN  << B64Char(b[1] \div 4, urlsafe),
                B64Char((b[1] % 4) * 16 + b2 \div 16, urlsafe),
                IF n >= 2 THEN B64Char((b2 % 16) * 4 + b3 \div 64, urlsafe) ELSE B64Pad,
                IF n >= 3 THEN B64Char(b3 % 64, urlsafe) ELSE B64Pad >>
             \o (IF n > 3 THEN B64Encode(SubSeq(b, 4, n), urlsafe) ELSE <<>>)

\* The bytes of the quads of a padded text.
RECURSIVE B64Quads(_, _)
B64Quads(c, urlsafe) ==
    IF c = <<>> THEN <<>>
    ELSE LET v(k) == IF c[k] = B64Pad THEN 0 ELSE B64Value(c[k], urlsafe)
             pads == Cardinality({k \in 3..4 : c[k] = B64Pad})
             three == << v(1) * 4 + v(2) \div 16,
                         (v(2) % 16) * 16 + v(3) \div 4,
                         (v(3) % 4) * 64 + v(4) >>
         IN  SubSeq(three, 1, 3 - pads) \o B64Quads(SubSeq(c, 5, Len(c)), urlsafe)

\* binascii.a2b_base64 without validation: the characters outside the
\* alphabet are dropped; binascii.Error on incorrect padding.
B64Decode(s, urlsafe) ==
    LET c == SelectSeq(s, LAMBDA x : x = B64Pad \/ InAlphabet(x, urlsafe))
        pad_ok == /\ Len(c) % 4 = 0
                  /\ \A k \in 1..Len(c) :
                        c[k] = B64Pad =>
                            /\ k > Len(c) - 2
                            /\ k > 2
                            /\ \A j \in k..Len(c) : c[j] = B64Pad
    IN  IF pad_ok THEN Value(B64Quads(c, urlsafe)) ELSE Raised

\* base64.b64encode and base64.b64decode
b64encode(b) == B64Encode(b, FALSE)

b64decode(s) == B64Decode(s, FALSE)

\* cryptography.fernet.Fernet, which is not part of the source tree, stood
\* in for by its contract: a token is the URL-safe Base64 text of a version
\* byte, the time, the initialisation vector, the plaintext made unreadable
\* under the key, and an authentication code of all of these under the key;
\* decrypt returns the plaintext of a token made with the same key and
\* raises InvalidToken on anything else.
FernetMac(key, body) == (key + Len(body) + body[Len(body)]) % 256

Fernet_encrypt(key, data, iv, now) ==
    LET body == <<128, now % 256, iv>>
                \o [i \in 1..Len(data) |-> (data[i] + key + iv) % 256]
    IN  B64Encode(body \o <<FernetMac(key, body)>>, TRUE)

Fernet_decrypt(key, token) ==
    \* the characters of a token are all of the URL-safe alphabet
    IF \E i \in 1..Len(token) : token[i] # B64Pad /\ ~InAlphabet(token[i], TRUE)
    THEN Raised
    ELSE CHOOSE r \in
        {IF decoded.raised \/ Len(decoded.value) < 4 THEN Raised
         ELSE LET raw == decoded.value
                  body == SubSeq(raw, 1, Len(raw) - 1)
              IN  IF raw[1] # 128 \/ raw[Len(raw)] # FernetMac(key, body) THEN Raised
                  ELSE Value([i \in 1..(Len(body) - 3) |->
                                 (body[i + 3] + 512 - key - body[3]) % 256]) :
         decoded \in {B64Decode(token, TRUE)}} : TRUE

\* EncryptionService.encrypt(data) of the service whose cipher has this key;
\* iv and now are what os.urandom and time.time give the cipher.
encrypt(key, data, iv, now) ==
    IF data = <<>> THEN Value(data)
    ELSE CHOOSE r \in
        {IF encoded.raised THEN Raised
         ELSE bytes_decode(b64encode(Fernet_encrypt(key, encoded.value, iv, now))) :
         encoded \in {str_encode(data)}} : TRUE

\* (the decrypted bytes read as Latin-1, one character a byte)
decrypt_latin1(key, encrypted_data) ==
    IF encrypted_data = <<>> THEN Value(encrypted_data)
    ELSE CHOOSE r \in
        {IF encoded.raised THEN Raised
         ELSE CHOOSE d \in
            {IF decoded.raised THEN Raised
             ELSE Fernet_decrypt(key, decoded.value) :
             decoded \in {b64decode(encoded.value)}} : TRUE :
         encoded \in {str_encode(encrypted_data)}} : TRUE

\* EncryptionService.decrypt(encrypted_data)
decrypt(key, encrypted_data) ==
    IF encrypted_data = <<>> THEN Value(encrypted_data)
    ELSE CHOOSE r \in
        {IF encoded.raised THEN Raised
         ELSE CHOOSE d \in
            {IF decoded.raised THEN Raised
             ELSE CHOOSE p \in
                {IF decrypted.raised THEN Raised ELSE bytes_decode(decrypted.value) :
                 decrypted \in {Fernet_decrypt(key, decoded.value)}} : TRUE :
             decoded \in {b64decode(encoded.value)}} : TRUE :
         encoded \in {str_encode(encrypted_data)}} : TRUE

(***************************************************************************)
(* Specification of the encryption service: one instance, whose methods    *)
(* are called with plaintexts of up to MaxPlaintextLen code points; every  *)
(* text a call of encrypt returned may be handed to decrypt.               *)
(***************************************************************************)
MaxPlaintextLen == 2

MaxEncryptions == 2

\* "A", e with acute accent, the euro sign, and a lone surrogate.
CodePoints == {65, 233, 8364, 55296}

Plaintexts == UNION {[1..n -> CodePoints] : n \in 0..MaxPlaintextLen}

\* The keys of the instances, and what os.urandom may give.
CipherKeys == {7, 200}

InitialisationVectors == {0, 255}

EncryptionInit ==
    /\ complaint = [f \in RequiredFieldNames |-> "COMP-001"]
    /\ documents = <<>>
    /\ settings = [ND_RECORD_RETENTION_DAYS |-> DefaultRetentionDays]
    /\ result = NoCall
    /\ response_text = <<>>
    /\ parsed = NoCall
    /\ ai_analysis = NoAnalysis
    /\ clock = 0
    /\ reports = <<>>
    /\ exports = <<>>
    /\ tasks = <<>>
    /\ access = NoCall
    /\ audit_log = <<>>
    /\ analyzer = NONE
    /\ http = NoCall
    /\ audit_call = NoCall
    /\ cipher \in CipherKeys
    /\ crypto = NoCall

EncryptionUnchanged ==
    UNCHANGED <<complaint, documents, settings, result, response_text, parsed,
                ai_analysis, reports, exports, tasks, apiVars, audit_call, cipher>>

Encrypt ==
    /\ clock < MaxEncryptions
    /\ \E data \in Plaintexts, iv \in InitialisationVectors :
          crypto' = [op |-> "encrypt", data |-> data, plaintext |-> data,
                     outcome |-> encrypt(cipher, data, iv, clock)]
    /\ clock' = clock + 1
    /\ EncryptionUnchanged

\* decrypt, handed what the last call of encrypt returned.
Decrypt ==
    /\ crypto.op = "encrypt"
    /\ ~crypto.outcome.raised
    /\ crypto' = [op |-> "decrypt", data |-> crypto.outcome.value,
                  plaintext |-> crypto.plaintext,
                  outcome |-> decrypt(cipher, crypto.outcome.value)]
    /\ UNCHANGED clock
    /\ EncryptionUnchanged

EncryptionNext ==
    \/ Encrypt
    \/ Decrypt

EncryptionSpec == EncryptionInit /\ [][EncryptionNext]_vars

(***************************************************************************)
(* The verdicts a state shows: the value a direct call returned, or the    *)
(* sub-verdict the aggregate retains.                                      *)
(***************************************************************************)
ReturnedHipaa ==
    IF result.op = "check_hipaa_compliance" THEN {result.value}
    ELSE IF result.op = "comprehensive_compliance_check" THEN {result.value.hipaa}
    ELSE {}

ReturnedCfr2 ==
    IF result.op = "check_cfr2_compliance" THEN {result.value}
    ELSE IF result.op = "comprehensive_compliance_check" THEN {result.value.cfr2}
    ELSE {}

ReturnedNdLaw ==
    IF result.op = "check_nd_state_law_compliance" THEN {result.value}
    ELSE IF result.op = "comprehensive_compliance_check" THEN {result.value.nd_state_law}
    ELSE {}

\* The positions of the unencrypted documents of a classification.
Unencrypted(cls) ==
    {i \in 1..Len(documents) :
        documents[i].security_classification = cls /\ ~documents[i].encrypted}

Classified(cls) ==
    {i \in 1..Len(documents) : documents[i].security_classification = cls}

Contains(seq, x) == \E i \in 1..Len(seq) : seq[i] = x

(***************************************************************************)
(* C1. check_hipaa_compliance: the issues list is exactly                  *)
(* <<"PHI documents must be encrypted">>, one entry however many documents *)
(* offend, when some PHI document is unencrypted, and is empty otherwise;  *)
(* documents of other classifications do not matter.                       *)
(***************************************************************************)
C1_HipaaIssues ==
    \A v \in ReturnedHipaa :
        v.issues = IF Unencrypted(PHI) # {}
                   THEN <<"PHI documents must be encrypted">>
                   ELSE <<>>

C1_Witness ==
    /\ result.op = "check_hipaa_compliance"
    /\ Cardinality(Unencrypted(PHI)) >= 2
    /\ Len(result.value.issues) = 1

(***************************************************************************)
(* C2. check_cfr2_compliance: the warnings list contains the consent       *)
(* warning if and only if some document is classified CFR2, encrypted or   *)
(* not; with no CFR2 document the warnings list is empty.                  *)
(***************************************************************************)
C2_Cfr2ConsentWarning ==
    \A v \in ReturnedCfr2 :
        /\ Contains(v.warnings, "Verify written consent for 42 CFR Part 2 disclosures")
              <=> Classified(CFR2) # {}
        /\ Classified(CFR2) = {} => v.warnings = <<>>

C2_Witness ==
    /\ result.op = "check_cfr2_compliance"
    /\ Classified(CFR2) # {}
    /\ Unencrypted(CFR2) = {}
    /\ Contains(result.value.warnings,
                "Verify written consent for 42 CFR Part 2 disclosures")

(***************************************************************************)
(* C3. check_cfr2_compliance: the issues list is exactly                   *)
(* <<"42 CFR Part 2 documents must be encrypted">> when some CFR2 document *)
(* is unencrypted and empty otherwise; an unencrypted PHI document never   *)
(* makes the CFR2 verdict non-compliant.                                   *)
(***************************************************************************)
C3_Cfr2Issues ==
    \A v \in ReturnedCfr2 :
        /\ v.issues = IF Unencrypted(CFR2) # {}
                      THEN <<"42 CFR Part 2 documents must be encrypted">>
                      ELSE <<>>
        /\ Unencrypted(CFR2) = {} => v.compliant

C3_Witness ==
    /\ result.op = "check_cfr2_compliance"
    /\ Unencrypted(PHI) # {}
    /\ Unencrypted(CFR2) = {}
    /\ result.value.compliant
    /\ result.value.issues = <<>>

(***************************************************************************)
(* C4. comprehensive_compliance_check: overall_compliant is true if and    *)
(* only if the hipaa, cfr2 and nd_state_law verdicts retained in the same  *)
(* result are all compliant.                                               *)
(***************************************************************************)
C4_OverallIsConjunction ==
    result.op = "comprehensive_compliance_check" =>
        (result.value.overall_compliant <=>
            /\ result.value.hipaa.compliant
            /\ result.value.cfr2.compliant
            /\ result.value.nd_state_law.compliant)

C4_Witness ==
    /\ result.op = "comprehensive_compliance_check"
    /\ result.value.hipaa.compliant
    /\ ~result.value.cfr2.compliant
    /\ result.value.nd_state_law.compliant
    /\ ~result.value.overall_compliant

(***************************************************************************)
(* C5. In every verdict of the three evaluators the compliant flag is true *)
(* if and only if the issues list is empty; warnings do not change it.     *)
(***************************************************************************)
C5_CompliantIffNoIssues ==
    \A v \in ReturnedHipaa \cup ReturnedCfr2 \cup ReturnedNdLaw :
        v.compliant <=> v.issues = <<>>

C5_Witness ==
    /\ result.op = "check_cfr2_compliance"
    /\ result.value.warnings # <<>>
    /\ result.value.issues = <<>>
    /\ result.value.compliant

(***************************************************************************)
(* C6. comprehensive_compliance_check: all_issues is the hipaa, cfr2 and   *)
(* nd_state_law issues lists concatenated in that order, and all_warnings  *)
(* their warnings lists in the same order.                                 *)
(***************************************************************************)
C6_Concatenation ==
    result.op = "comprehensive_compliance_check" =>
        /\ result.value.all_issues =
              result.value.hipaa.issues \o result.value.cfr2.issues
                 \o result.value.nd_state_law.issues
        /\ result.value.all_warnings =
              result.value.hipaa.warnings \o result.value.cfr2.warnings
                 \o result.value.nd_state_law.warnings

C6_Witness ==
    /\ result.op = "comprehensive_compliance_check"
    /\ result.value.hipaa.issues # <<>>
    /\ result.value.cfr2.issues # <<>>
    /\ Len(result.value.nd_state_law.issues) >= 2
    /\ result.value.cfr2.warnings # <<>>
    /\ result.value.nd_state_law.warnings # <<>>
    /\ Len(result.value.all_issues) >= 4
    /\ Len(result.value.all_warnings) = 2

(***************************************************************************)
(* C7. check_nd_state_law_compliance: for every complaint record, also one *)
(* whose required attributes are absent, None or empty, the issues list    *)
(* holds exactly one "Missing required field: <name>" entry for each of    *)
(* the four required fields that is absent, None or empty, in field order. *)
(***************************************************************************)
MissingFields ==
    SelectSeq(required_fields,
              LAMBDA f : \/ f \notin DOMAIN complaint
                         \/ complaint[f] = NONE
                         \/ complaint[f] = "")

C7_MissingFieldIssues ==
    \A v \in ReturnedNdLaw :
        v.issues = [i \in 1..Len(MissingFields) |->
                        "Missing required field: " \o MissingFields[i]]

C7_Witness ==
    /\ result.op = "check_nd_state_law_compliance"
    /\ "complaint_number" \notin DOMAIN complaint
    /\ "licensee_name" \in DOMAIN complaint /\ complaint["licensee_name"] = NONE
    /\ "licensee_license_number" \in DOMAIN complaint
    /\ complaint["licensee_license_number"] = "COMP-001"
    /\ "complaint_description" \in DOMAIN complaint
    /\ complaint["complaint_description"] = ""
    /\ result.value.issues = <<"Missing required field: complaint_number",
                               "Missing required field: licensee_name",
                               "Missing required field: complaint_description">>

(***************************************************************************)
(* C8. check_nd_state_law_compliance: exactly one warning, naming the      *)
(* configured value, is emitted if and only if the configured retention    *)
(* day count is strictly below 2555; the retention check adds no issue and *)
(* does not make the verdict non-compliant.                                *)
(***************************************************************************)
C8_RetentionWarning ==
    \A v \in ReturnedNdLaw :
        LET days == settings.ND_RECORD_RETENTION_DAYS
        IN  /\ v.warnings =
                 IF days < 2555
                 THEN <<"Record retention set to " \o ToString(days)
                        \o " days, verify compliance with ND law">>
                 ELSE <<>>
            /\ MissingFields = <<>> => v.issues = <<>> /\ v.compliant

C8_Witness ==
    /\ result.op = "check_nd_state_law_compliance"
    /\ settings.ND_RECORD_RETENTION_DAYS = 2554
    /\ MissingFields = <<>>
    /\ result.value.warnings =
          <<"Record retention set to 2554 days, verify compliance with ND law">>
    /\ result.value.compliant


HasBrace(text) == \E i \in 1..Len(text) : text[i] \in {"{", "}"}

C10_NoBraceGivesDefault ==
    parsed.op = "_parse_analysis_response" /\ ~HasBrace(response_text) =>
        /\ ~parsed.outcome.raised
        /\ parsed.outcome.value.t = "dict"
        /\ LET d == parsed.outcome.value.fields
           IN  /\ DOMAIN d = {"key_findings", "recommended_strategies", "risk_assessment",
                              "compliance_notes", "confidence_score"}
               /\ d.key_findings = PyList(<<PyStr("Analysis completed. Review required.")>>)
               /\ d.recommended_strategies =
                      PyList(<<PyStr("Conduct thorough investigation")>>)
               /\ d.risk_assessment =
                      PyDict([level |-> PyStr("medium"),
                              factors |-> PyList(<<PyStr("Requires manual review")>>),
                              urgency |-> PyStr("medium")])
               /\ d.compliance_notes =
                      PyList(<<PyStr("Ensure HIPAA compliance in investigation")>>)
               /\ d.confidence_score = PyFloat(5, 1)

\* Prose in an unclosed "```json" fence, no brace anywhere.
C10_Witness ==
    /\ parsed.op = "_parse_analysis_response"
    /\ ~HasBrace(response_text)
    /\ In(FENCE_JSON, response_text)
    /\ In(<<"o", "k">>, response_text)
    /\ parsed.outcome.decode = "none"
    /\ parsed.outcome.value.fields.confidence_score = PyFloat(5, 1)

(***************************************************************************)
(* C11. analyze_complaint: when the response text decodes to a JSON object *)
(* that lacks some of the five expected keys, the analysis holds the       *)
(* parsed value for every key that is present and, for every missing key,  *)
(* the empty default (empty list, empty record, 0.0), which is not the     *)
(* value the fixed fallback has for that key.                              *)
(***************************************************************************)
ExpectedKeys ==
    {"key_findings", "recommended_strategies", "risk_assessment",
     "compliance_notes", "confidence_score"}

EmptyDefault(k) ==
    IF k = "risk_assessment" THEN PyDict(<<>>)
    ELSE IF k = "confidence_score" THEN PyFloat(0, 0)
    ELSE PyList(<<>>)

\* Python's ==, under which an int and the float of the same value are equal.
PyEqual(a, b) ==
    \/ a = b
    \/ /\ a.t \in {"int", "float"}
       /\ b.t \in {"int", "float"}
       /\ a.n * Pow10(b.d) = b.n * Pow10(a.d)

C11_MissingKeysDefault ==
    (/\ parsed.op = "analyze_complaint"
     /\ parsed.outcome.decode = "ok"
     /\ ~(ExpectedKeys \subseteq DOMAIN parsed.outcome.value.fields)
     /\ ~parsed.analysis.raised) =>
        \A k \in ExpectedKeys :
            IF k \in DOMAIN parsed.outcome.value.fields
            THEN PyEqual(parsed.analysis.value[k], parsed.outcome.value.fields[k])
            ELSE /\ parsed.analysis.value[k] = EmptyDefault(k)
                 /\ parsed.analysis.value[k] # FallbackDefault.fields[k]

\* The object {"key_findings":["a"],"confidence_score":0.9} in a closed
\* fence or between prose.
C11_Witness ==
    /\ parsed.op = "analyze_complaint"
    /\ parsed.outcome.decode = "ok"
    /\ DOMAIN parsed.outcome.value.fields = {"key_findings", "confidence_score"}
    /\ ~parsed.analysis.raised
    /\ parsed.analysis.value.key_findings = PyList(<<PyStr("a")>>)
    /\ parsed.analysis.value.recommended_strategies = PyList(<<>>)
    /\ parsed.analysis.value.risk_assessment = PyDict(<<>>)
    /\ parsed.analysis.value.compliance_notes = PyList(<<>>)
    /\ parsed.analysis.value.confidence_score = PyFloat(9, 1)

(***************************************************************************)
(* What the claims about reports read off a text.                          *)
(***************************************************************************)
\* str.split("\n"), from the character at start on.
RECURSIVE LinesFrom(_, _)
LinesFrom(text, start) ==
    IF \E j \in start..Len(text) : SubSeq(text, j, j) = "\n"
    THEN LET i == CHOOSE j \in start..Len(text) :
                     /\ SubSeq(text, j, j) = "\n"
                     /\ \A m \in start..(j - 1) : SubSeq(text, m, m) # "\n"
         IN  <<SubSeq(text, start, i - 1)>> \o LinesFrom(text, i + 1)
    ELSE <<SubSeq(text, start, Len(text))>>

Lines(text) == LinesFrom(text, 1)

\* The lines after the first line equal to heading, up to the next empty line.
Block(lines, heading) ==
    LET h == Min({i \in 1..Len(lines) : lines[i] = heading})
        e == Min({i \in (h + 1)..(Len(lines) + 1) : i = Len(lines) + 1 \/ lines[i] = ""})
    IN  SubSeq(lines, h + 1, e - 1)

HasPrefix(str, prefix) == Len(str) >= Len(prefix) /\ SubSeq(str, 1, Len(prefix)) = prefix

\* The findings handed to the generator, as Python strings.
InputFindings == [i \in 1..Len(ai_analysis.key_findings.items) |->
                     ai_analysis.key_findings.items[i].s]

(***************************************************************************)
(* C12. _generate_executive_summary: for an analysis with n key findings   *)
(* the block under "KEY FINDINGS:" holds exactly min(n, 5) lines, line i   *)
(* being "i. " followed by the i-th finding of the input; findings beyond  *)
(* the fifth are left out and nothing is added when n < 5.                 *)
(***************************************************************************)
C12_TopFiveFindings ==
    \A r \in 1..Len(reports) :
        LET block == Block(Lines(reports[r].value.executive_summary), "KEY FINDINGS:")
            n == Len(InputFindings)
        IN  /\ Len(block) = (IF n < 5 THEN n ELSE 5)
            /\ \A i \in 1..Len(block) : block[i] = ToString(i) \o ". " \o InputFindings[i]

C12_Witness ==
    /\ Len(reports) >= 1
    /\ Len(InputFindings) = 8
    /\ Block(Lines(reports[1].value.executive_summary), "KEY FINDINGS:") =
          <<"1. finding 8", "2. finding 7", "3. finding 6", "4. finding 5", "5. finding 4">>

(***************************************************************************)
(* C13. generate_panel_report: the executive summary has one compliance    *)
(* status line, which reads "COMPLIANCE STATUS: COMPLIANT" if and only if  *)
(* the aggregated verdict of the same complaint and documents has          *)
(* overall_compliant true, and "COMPLIANCE STATUS: ISSUES IDENTIFIED"      *)
(* otherwise; warnings alone leave it COMPLIANT.                           *)
(***************************************************************************)
C13_ComplianceStatusLine ==
    \A r \in 1..Len(reports) :
        LET lines == Lines(reports[r].value.executive_summary)
            status == SelectSeq(lines, LAMBDA l : HasPrefix(l, "COMPLIANCE STATUS: "))
            verdict == comprehensive_compliance_check(complaint, documents)
        IN  /\ Len(status) = 1
            /\ status[1] = IF verdict.overall_compliant
                           THEN "COMPLIANCE STATUS: COMPLIANT"
                           ELSE "COMPLIANCE STATUS: ISSUES IDENTIFIED"
            /\ (verdict.all_issues = <<>>) => status[1] = "COMPLIANCE STATUS: COMPLIANT"

C13_Witness ==
    /\ Len(reports) >= 1
    /\ comprehensive_compliance_check(complaint, documents).all_issues = <<>>
    /\ Len(comprehensive_compliance_check(complaint, documents).all_warnings) = 2
    /\ Lines(reports[1].value.executive_summary)
          [Len(Lines(reports[1].value.executive_summary))] = "COMPLIANCE STATUS: COMPLIANT"

(***************************************************************************)
(* C14. _prepare_compliance_considerations: for each of the rule sets      *)
(* HIPAA, 42 CFR Part 2 and ND State Law the list holds the line           *)
(* "<LABEL> COMPLIANCE ISSUES: " with the issues joined by "; " when the   *)
(* rule set is not compliant, else "<LABEL> WARNINGS: " with the warnings  *)
(* joined by "; " when it has warnings, else "<Label>: Compliant".         *)
(***************************************************************************)
RuleSetLine(verdict, upper, label) ==
    IF ~verdict.compliant
    THEN upper \o " COMPLIANCE ISSUES: " \o Join(verdict.issues, "; ")
    ELSE IF verdict.warnings # <<>>
    THEN upper \o " WARNINGS: " \o Join(verdict.warnings, "; ")
    ELSE label \o ": Compliant"

C14_LinePerRuleSet ==
    \A r \in 1..Len(reports) :
        LET verdict == comprehensive_compliance_check(complaint, documents)
            considerations == reports[r].value.compliance_considerations
        IN  /\ Contains(considerations, RuleSetLine(verdict.hipaa, "HIPAA", "HIPAA"))
            /\ Contains(considerations,
                        RuleSetLine(verdict.cfr2, "42 CFR PART 2", "42 CFR Part 2"))
            /\ Contains(considerations,
                        RuleSetLine(verdict.nd_state_law, "ND STATE LAW", "ND State Law"))

(***************************************************************************)
(* C15. generate_panel_report: after any sequence of calls on the one      *)
(* ReportGenerator, repeated calls for the same complaint included, every  *)
(* report returned has version 1, names the user of its own call, and      *)
(* apart from that user and the report date is the same as every other     *)
(* report returned for the case: no call's result depends on the calls     *)
(* before it.                                                              *)
(***************************************************************************)
Undated(report) == [report EXCEPT !.report_date = utcnow(0), !.generated_by = ""]

C15_VersionOneEveryCall ==
    \A i \in 1..Len(reports) :
        /\ reports[i].value.version = 1
        /\ reports[i].value.generated_by = reports[i].generated_by
        /\ \A j \in 1..Len(reports) : Undated(reports[i].value) = Undated(reports[j].value)

C15_Witness ==
    /\ Len(reports) = 3
    /\ reports[1].generated_by = reports[3].generated_by
    /\ reports[1].generated_by # reports[2].generated_by
    /\ reports[1].value.report_date # reports[3].value.report_date
    /\ reports[3].value.version = 1

SequentialRun(t) == comprehensive_compliance_check(tasks[t].complaint, tasks[t].documents)

AsSequentialRun ==
    \A t \in DOMAIN tasks :
        /\ \A e \in DOMAIN tasks[t].verdicts : tasks[t].verdicts[e] = SequentialRun(t)[e]
        /\ tasks[t].aggregate # NoCall => tasks[t].aggregate.value = SequentialRun(t)

C16_EvaluatorsIndependent ==
    [][/\ AsSequentialRun'
       /\ settings' = settings
       /\ \A t \in DOMAIN tasks :
             /\ tasks'[t].complaint = tasks[t].complaint
             /\ tasks'[t].documents = tasks[t].documents]_vars

\* The first caller has run the state law evaluator only, the second, with
\* another complaint and other documents, has run all three and combined
\* them.
C16_Witness ==
    /\ DOMAIN tasks = 1..MaxTasks
    /\ DOMAIN tasks[1].verdicts = {"nd_state_law"}
    /\ tasks[2].aggregate # NoCall
    /\ tasks[1].complaint # tasks[2].complaint
    /\ tasks[1].documents # tasks[2].documents
    /\ ~tasks[1].verdicts["nd_state_law"].compliant
    /\ ~tasks[2].aggregate.value.hipaa.compliant
    /\ tasks[2].aggregate.value.nd_state_law.compliant

(***************************************************************************)
(* C18. has_permission(r, p) holds exactly when p is in r's row of the     *)
(* role-permission table, the row of ADMIN being the set of all            *)
(* permissions: ADMIN has every permission, INVESTIGATOR lacks             *)
(* MANAGE_USERS and READ_ONLY lacks CREATE_COMPLAINT.                      *)
(***************************************************************************)
C18_HasPermissionIsRowMembership ==
    access.op = "has_permission" =>
        /\ access.value = (access.permission \in ROLE_PERMISSIONS[access.role])
        /\ ROLE_PERMISSIONS[ADMIN] = Permission
        /\ access.role = ADMIN => access.value
        /\ access.role = INVESTIGATOR /\ access.permission = MANAGE_USERS => ~access.value
        /\ access.role = READ_ONLY /\ access.permission = CREATE_COMPLAINT => ~access.value

\* The investigator was refused the management of users.
C18_Witness ==
    /\ access.op = "has_permission"
    /\ access.role = INVESTIGATOR
    /\ access.permission = MANAGE_USERS
    /\ ~access.value

(***************************************************************************)
(* C19. PHI and CFR2 data is accessible to exactly ADMIN, INVESTIGATOR and *)
(* PANEL_MEMBER, RESTRICTED data to exactly those three and REVIEWER,      *)
(* PUBLIC and CONFIDENTIAL data to every role; so a role that can access   *)
(* PHI can access every classification, and READ_ONLY and AUDITOR can      *)
(* access none of PHI, CFR2 and RESTRICTED.                                *)
(***************************************************************************)
Accessible == {access.value[i] : i \in DOMAIN access.value}

DocstringPermission ==
    [create_complaint |-> CREATE_COMPLAINT,
     get_complaint |-> VIEW_COMPLAINT,
     analyze_complaint |-> RUN_ANALYSIS,
     generate_report |-> GENERATE_REPORT,
     export_report |-> EXPORT_REPORT,
     upload_document |-> UPLOAD_DOCUMENT]

LacksPermission(response) ==
    /\ response.op \in DOMAIN DocstringPermission
    /\ DocstringPermission[response.op] \notin ROLE_PERMISSIONS[response.current_user.role]

C20_ForbiddenWithoutTrace ==
    [][LacksPermission(http') =>
          /\ http'.status_code = 403
          /\ http'.detail = "Insufficient permissions"
          /\ audit_log' = audit_log
          /\ analyzer' = analyzer
          /\ clock' = clock]_vars

\* After an audited request of an investigator, a read-only user was refused
\* the creation of a complaint.
C20_Witness ==
    /\ http.op = "create_complaint"
    /\ http.current_user.role = READ_ONLY
    /\ http.status_code = 403
    /\ Len(audit_log) = 1
    /\ audit_log[1].action = "run_analysis"

(***************************************************************************)
(* C21. The audit trail is append-only: every call of log_action,          *)
(* log_data_access, log_phi_access or log_cfr2_access adds exactly one     *)
(* entry, which carries the actor, the action, the resource type and the   *)
(* resource identifier of the call, and leaves the entries of the earlier  *)
(* calls as they were.                                                     *)
(***************************************************************************)
C21_AuditTrailAppendOnly ==
    [][LET n == Len(audit_log)
           entry == audit_log'[n + 1]
       IN  /\ Len(audit_log') = n + 1
           /\ SubSeq(audit_log', 1, n) = audit_log
           /\ entry.user_id = audit_call'.user_id
           /\ entry.action = audit_call'.action
           /\ entry.resource_type = audit_call'.resource_type
           /\ entry.resource_id = audit_call'.resource_id
           /\ audit_call'.op = "log_action" => audit_call'.returned = <<entry>>]_vars

\* A document's PHI was read after a complaint was viewed: the trail holds
\* both entries, the earlier one first.
C21_Witness ==
    /\ Len(audit_log) = 2
    /\ audit_call.op = "log_phi_access"
    /\ audit_log[1].action = "view_complaint"
    /\ audit_log[1].resource_id = "comp_1"
    /\ audit_log[2].action = "phi_access"
    /\ audit_log[2].resource_id = "doc_1"
    /\ audit_log[2].user_id # audit_log[1].user_id

(***************************************************************************)
(* C22. For any one service instance, encrypt returns a text for every     *)
(* plaintext without a surrogate code point, the empty one included, and   *)
(* decrypt of that text returns the plaintext; on a plaintext with a       *)
(* surrogate encrypt raises UnicodeEncodeError and returns nothing.        *)
(***************************************************************************)
HasSurrogate(s) == \E i \in 1..Len(s) : IsSurrogate(s[i])

C22_RoundTripOfEncodableText ==
    /\ crypto.op = "encrypt" => (crypto.outcome.raised <=> HasSurrogate(crypto.data))
    /\ crypto.op = "decrypt" =>
          /\ ~crypto.outcome.raised
          /\ crypto.outcome.value = crypto.plaintext

\* The euro sign and an accented letter came back from decrypt.
C22_Witness ==
    /\ crypto.op = "decrypt"
    /\ crypto.plaintext = <<8364, 233>>
    /\ crypto.data # crypto.plaintext
    /\ crypto.outcome = Value(<<8364, 233>>)

\* The statement for every plaintext string: encrypt returns a text and
\* decrypt of that text returns the plaintext.
C22_RoundTrip ==
    /\ crypto.op = "encrypt" => ~crypto.outcome.raised
    /\ crypto.op = "decrypt" =>
          /\ ~crypto.outcome.raised
          /\ crypto.outcome.value = crypto.plaintext


(***************************************************************************)
(* C23. _parse_analysis_response selects the text to decode by priority:   *)
(* the interior of the first fenced block tagged json when the response    *)
(* has one; otherwise the interior of the first fenced block when it has   *)
(* any; otherwise the whole response.  Only the selected text is decoded:  *)
(* what the parser returns is what that text alone gives, text outside a   *)
(* selected block is not consulted even when the interior does not decode. *)
(***************************************************************************)
\* A block is an opening marker with a fence that closes it.
HasBlock(text, marker) ==
    /\ In(marker, text)
    /\ Find(text, FENCE, Find(text, marker, 0) + Len(marker)) >= 0

BlockInterior(text, marker) ==
    LET opened == Find(text, marker, 0) + Len(marker)
    IN  Slice(text, opened, Find(text, FENCE, opened))

TextByPriority(text) ==
    IF HasBlock(text, FENCE_JSON) THEN BlockInterior(text, FENCE_JSON)
    ELSE IF HasBlock(text, FENCE) THEN BlockInterior(text, FENCE)
    ELSE text

\* What one text gives when it alone is decoded: the object it holds, or
\* the default.
ValueOfText(text) ==
    LET trimmed == Strip(text)
        first == Find(trimmed, <<"{">>, 0)
        last == RFind(trimmed, <<"}">>)
        r == IF StartsWith(trimmed, <<"{">>) THEN json_loads(trimmed)
             ELSE IF first >= 0 /\ last > first
             THEN json_loads(Slice(trimmed, first, last + 1))
             ELSE [ok |-> FALSE]
    IN  IF r.ok THEN r.value ELSE FallbackDefault

C23_SelectionPriority ==
    parsed.op = "_parse_analysis_response" =>
        /\ ~parsed.outcome.raised
        /\ parsed.outcome.value = ValueOfText(TextByPriority(response_text))

\* The same, for the responses in which every fence opened is closed.
C23_SelectionPriorityOfClosedFences ==
    /\ parsed.op = "_parse_analysis_response"
    /\ In(FENCE, response_text) => HasBlock(response_text, FENCE)
    /\ In(FENCE_JSON, response_text) => HasBlock(response_text, FENCE_JSON)
    => /\ ~parsed.outcome.raised
       /\ parsed.outcome.value = ValueOfText(TextByPriority(response_text))

(***************************************************************************)
(* C24. _parse_analysis_response: when the selected text, trimmed, does    *)
(* not start with an opening brace, exactly the substring from its first   *)
(* opening brace to its last closing brace, both included, is decoded, so  *)
(* that one object between prose is returned as parsed; when the text has  *)
(* no opening brace, or no closing brace after the first opening one,      *)
(* nothing is decoded and the fallback default is returned.                *)
(***************************************************************************)
C24_FirstToLastBrace ==
    parsed.op = "_parse_analysis_response"
    /\ ~StartsWith(SelectedText(response_text), <<"{">>) =>
        LET selected == SelectedText(response_text)
            first == Find(selected, <<"{">>, 0)
            last == RFind(selected, <<"}">>)
            r == json_loads(Slice(selected, first, last + 1))
        IN  IF first >= 0 /\ last > first
            THEN IF r.ok
                 THEN parsed.outcome.decode = "ok" /\ parsed.outcome.value = r.value
                 ELSE parsed.outcome.decode = "error"
                      /\ parsed.outcome.value = FallbackDefault
            ELSE parsed.outcome.decode = "none" /\ parsed.outcome.value = FallbackDefault

\* " ok {"key_findings":["a"]} ok ": the object between the prose is returned.
C24_Witness ==
    /\ parsed.op = "_parse_analysis_response"
    /\ response_text = Prose \o KeyFindingsObject \o Prose
    /\ parsed.outcome.decode = "ok"
    /\ parsed.outcome.value = PyDict([key_findings |-> PyList(<<PyStr("a")>>)])

(***************************************************************************)
(* C25. _prepare_compliance_considerations: the list is the line of HIPAA, *)
(* the line of 42 CFR Part 2 and the line of ND State Law, in that order,  *)
(* followed by the one line "GENERAL WARNINGS: " with the aggregated       *)
(* warnings joined by "; " if and only if all_warnings is not empty: 3     *)
(* lines without warnings, 4 with.                                         *)
(***************************************************************************)
C25_ThreeLinesThenGeneralWarnings ==
    \A r \in 1..Len(reports) :
        LET verdict == comprehensive_compliance_check(complaint, documents)
            considerations == reports[r].value.compliance_considerations
            general == "GENERAL WARNINGS: " \o Join(verdict.all_warnings, "; ")
        IN  /\ Len(considerations) = (IF verdict.all_warnings = <<>> THEN 3 ELSE 4)
            /\ HasPrefix(considerations[1], "HIPAA")
            /\ HasPrefix(considerations[2], "42 CFR P")
            /\ HasPrefix(considerations[3], "ND S")
            /\ verdict.all_warnings # <<>> => considerations[4] = general
            /\ \A i \in 1..3 : ~HasPrefix(considerations[i], "GENERAL WARNINGS")

\* Warnings of two rule sets, one of which is also not compliant: four lines.
C25_Witness ==
    /\ Len(reports) >= 1
    /\ Len(comprehensive_compliance_check(complaint, documents).all_warnings) = 2
    /\ ~comprehensive_compliance_check(complaint, documents).hipaa.compliant
    /\ Len(reports[1].value.compliance_considerations) = 4
    /\ HasPrefix(reports[1].value.compliance_considerations[4], "GENERAL WARNINGS: ")
    /\ HasChar(reports[1].value.compliance_considerations[4], ";")

(***************************************************************************)
(* C26. export_report_to_text writes its sections in the order header,     *)
(* executive summary, complaint details, response analysis, key findings,  *)
(* recommended strategies, compliance considerations, risk assessment,     *)
(* closing banner; the banner lines are lines of exactly 80 "="; and the   *)
(* entries of complaint details and of response analysis stand in the      *)
(* order of the record's fields.  The heading of the header, of each of    *)
(* the seven sections after the executive summary and of the closing is    *)
(* enclosed by two banner lines; the executive summary has no banner of    *)
(* its own: its text stands between two empty lines, after the header's    *)
(* fields and before the banner of the complaint details.                  *)
(***************************************************************************)
SectionTitles ==
    <<"INVESTIGATION REPORT", "COMPLAINT DETAILS", "RESPONSE ANALYSIS", "KEY FINDINGS",
      "RECOMMENDED STRATEGIES", "COMPLIANCE CONSIDERATIONS", "RISK ASSESSMENT",
      "END OF REPORT">>

IsBannerLine(line) == Len(line) = 80 /\ \A i \in 1..80 : SubSeq(line, i, i) = "="

\* The positions at which a line stands between two banner lines.
Enclosed(lines, line) ==
    {i \in 2..(Len(lines) - 1) :
        lines[i] = line /\ IsBannerLine(lines[i - 1]) /\ IsBannerLine(lines[i + 1])}

\* The lines of a section's body that open an entry: those not indented.
EntryLines(body) == SelectSeq(body, LAMBDA l : ~HasPrefix(l, "  "))

InFieldOrder(body, record) ==
    /\ Len(EntryLines(body)) = Len(record)
    /\ \A i \in 1..Len(record) : HasPrefix(EntryLines(body)[i], record[i].k \o ":")

\* The position of each heading, when each stands between banners once.
TitlePositions(lines) ==
    [k \in 1..Len(SectionTitles) |-> CHOOSE i \in Enclosed(lines, SectionTitles[k]) : TRUE]

SectionsInOrder(report, text) ==
    LET lines == Lines(text)
        p == TitlePositions(lines)
    IN  /\ \A k \in 1..Len(SectionTitles) : Cardinality(Enclosed(lines, SectionTitles[k])) = 1
        /\ p[1] = 2 /\ p[8] = Len(lines) - 1
        /\ \A k \in 1..7 : p[k] < p[k + 1]
        /\ {i \in 1..Len(lines) : HasPrefix(lines[i], "=")} =
              UNION {{p[k] - 1, p[k] + 1} : k \in 1..8}
        /\ HasPrefix(lines[4], "Report Date: ") /\ HasPrefix(lines[5], "Complaint ID: ")
        /\ HasPrefix(lines[6], "Generated By: ") /\ HasPrefix(lines[7], "Version: ")
        /\ lines[8] = "" /\ lines[p[2] - 2] = ""
        /\ SubSeq(lines, 9, p[2] - 3) = Lines(report.executive_summary)
        /\ InFieldOrder(SubSeq(lines, p[2] + 2, p[3] - 3), report.complaint_details)
        /\ InFieldOrder(SubSeq(lines, p[3] + 2, p[4] - 3), report.response_analysis)

LineAbove(lines, i) == lines[CHOOSE j \in 1..(i - 1) :
                                lines[j] # "" /\ \A m \in (j + 1)..(i - 1) : lines[m] = ""]

LineBelow(lines, i) == lines[CHOOSE j \in (i + 1)..Len(lines) :
                                lines[j] # "" /\ \A m \in (i + 1)..(j - 1) : lines[m] = ""]

\* The executive summary as a section in banners: its heading between two
\* banner lines, or its text between two banner lines.
SummaryInBanners(report, text) ==
    LET lines == Lines(text)
        p == TitlePositions(lines)
    IN  \/ Enclosed(lines, "EXECUTIVE SUMMARY") # {}
        \/ /\ IsBannerLine(LineAbove(lines, 9))
           /\ IsBannerLine(LineBelow(lines, p[2] - 3))

AuditedAction ==
    [create_complaint |-> "create_complaint",
     get_complaint |-> "data_access",
     analyze_complaint |-> "run_analysis",
     generate_report |-> "generate_report",
     export_report |-> "export_report",
     upload_document |-> "upload_document"]

\* The instants a returned object carries.
OutcomeInstants(response) ==
    IF response.status_code # 200 THEN {}
    ELSE IF response.op = "create_complaint"
    THEN {response.body.created_at, response.body.updated_at}
    ELSE IF response.op = "generate_report" THEN {response.body.report_date}
    ELSE IF response.op = "upload_document" THEN {response.body.uploaded_at}
    ELSE {}

UsableKey ==
    /\ settings.OPENAI_API_KEY # NONE
    /\ settings.OPENAI_API_KEY # ""
    /\ settings.OPENAI_API_KEY # "your-openai-api-key-here"

AnalysisRequested(response) ==
    response.op = "analyze_complaint" /\ ~LacksPermission(response)

C28_LazySingleton ==
    /\ [][/\ analyzer # NONE => analyzer' = analyzer
          /\ ~AnalysisRequested(http') => analyzer' = analyzer
          /\ AnalysisRequested(http') =>
                /\ (analyzer' = NONE) <=> (http'.status_code = 503)
                /\ ~UsableKey => analyzer' = NONE]_vars
    /\ [](analyzer = NONE /\ UsableKey /\ Len(audit_log) < MaxRequests
             => ENABLED (AnalyzeEndpoint /\ analyzer' # NONE))

\* The first analysis was refused for want of an analyzer; the second call
\* built one, at its own instant, and that one is installed.
C28_Witness ==
    /\ Len(audit_log) = 2
    /\ audit_log[1].action = "run_analysis"
    /\ audit_log[2].action = "run_analysis"
    /\ analyzer = "ComplaintAnalyzer at 2"
    /\ http.op = "analyze_complaint"
    /\ http.status_code # 503

(***************************************************************************)
(* C29. In every result of comprehensive_compliance_check,                 *)
(* overall_compliant is true if and only if all_issues is empty, and       *)
(* all_issues is not empty if and only if at least one of the three        *)
(* sub-verdicts has issues.                                                *)
(***************************************************************************)
C29_OverallIffNoIssues ==
    result.op = "comprehensive_compliance_check" =>
        /\ result.value.overall_compliant <=> result.value.all_issues = <<>>
        /\ result.value.all_issues # <<>> <=>
              \/ result.value.hipaa.issues # <<>>
              \/ result.value.cfr2.issues # <<>>
              \/ result.value.nd_state_law.issues # <<>>

\* Issues of ND State Law alone, beside warnings of another rule set.
C29_Witness ==
    /\ result.op = "comprehensive_compliance_check"
    /\ result.value.hipaa.issues = <<>>
    /\ result.value.cfr2.issues = <<>>
    /\ result.value.cfr2.warnings # <<>>
    /\ result.value.nd_state_law.issues # <<>>
    /\ result.value.all_issues = result.value.nd_state_law.issues
    /\ ~result.value.overall_compliant

(***************************************************************************)
(* C30. Every AIAnalysis analyze_complaint returns has a confidence_score  *)
(* within [0.0, 1.0]: when the text decodes to a JSON object whose         *)
(* confidence_score lies outside that range, analyze_complaint ends with   *)
(* an error and returns no AIAnalysis; the value is neither clamped nor    *)
(* replaced by the fallback default.                                       *)
(***************************************************************************)
\* A number n / 10^d below 0 or above 1.
OutsideUnitInterval(v) == v.t \in {"int", "float"} /\ (v.n < 0 \/ v.n > Pow10(v.d))

WithinUnitInterval(v) == v.t = "float" /\ 0 <= v.n /\ v.n <= Pow10(v.d)

C30_ConfidenceWithinUnitInterval ==
    parsed.op = "analyze_complaint" =>
        /\ ~parsed.analysis.raised =>
              WithinUnitInterval(parsed.analysis.value.confidence_score)
        /\ /\ parsed.outcome.decode = "ok"
           /\ "confidence_score" \in DOMAIN parsed.outcome.value.fields
           /\ OutsideUnitInterval(parsed.outcome.value.fields.confidence_score)
           => /\ parsed.analysis.raised
              /\ parsed.analysis.value = PyNone

\* {"confidence_score":1.5} is decoded, and no analysis comes back.
C30_Witness ==
    /\ parsed.op = "analyze_complaint"
    /\ response_text = ConfidenceObject(<<"1", ".", "5">>)
    /\ parsed.outcome.decode = "ok"
    /\ parsed.outcome.value.fields.confidence_score = PyFloat(15, 1)
    /\ parsed.analysis.raised
=============================================================================
